---- MODULE Spec2Model ----
(***************************************************************************)
(* A model of neo-go: the streaming response aggregator and tool          *)
(* orchestrator (ai_interaction.go), the command executor (main.go) and    *)
(* the file primitives (file_operations).                                  *)
(*                                                                         *)
(* Go strings are modelled as sequences of atoms (an atom is an            *)
(* indivisible piece of text); "" is <<>> and + is \o.  The text of a      *)
(* tool call's arguments is a sequence of JSON tokens.                     *)
(***************************************************************************)
EXTENDS Integers, Sequences, FiniteSets, TLC

VARIABLES
    ConversationHistory, \* the global message log
    pc,                  \* position of the executor / StreamAIResponse
    stream,              \* fragments the open stream has still to deliver
    fullResponse,        \* text accumulated from the open stream
    toolCalls,           \* tool calls merged from the first stream
    finalNaturalResponse, \* text accumulated from the follow-up stream
    files,               \* the filesystem: path -> entry
    inputs,              \* number of input lines the executor has handled
    turn,                \* facts about the turn in progress or last ended
    editIn,              \* arguments of the file-primitive calls under study
    editLog,             \* results of those calls, in order
    received,            \* tool-call deltas received so far, in order
    streams,             \* the streams of the running StreamAIResponse
    scan,                \* addDirectoryToConversationHelper's walk
    formatter            \* the MatrixTextStreamFormatter of StreamAIResponse

vars == <<ConversationHistory, pc, stream, fullResponse, toolCalls,
          finalNaturalResponse, files, inputs, turn, editIn, editLog, received,
          streams, scan, formatter>>

----------------------------------------------------------------------------
(* Bounds of the model *)

MaxInputs == 2       \* input lines per session, detailed turn specification
MaxHistInputs == 5     \* input lines per session, history specification
MaxLen == 3          \* length of file contents and snippets in SpecEdit
MaxDeltas == 3       \* tool-call deltas per stream in SpecMerge
MaxSys == 2          \* system messages in an input of SpecTrim
MaxOther == 22       \* non-system messages in an input of SpecTrim

----------------------------------------------------------------------------
(* Go strings *)

Max(a, b) == IF a > b THEN a ELSE b
Min(a, b) == IF a < b THEN a ELSE b

\* strings.HasPrefix on sequences of atoms
HasPrefixAt(s, sub, i) ==
    /\ i + Len(sub) <= Len(s)
    /\ \A k \in 1..Len(sub) : s[i + k] = sub[k]

\* strings.Index: 0-based offset of the first occurrence, -1 if none
stringsIndex(s, sub) ==
    IF \E i \in 0..Len(s) : HasPrefixAt(s, sub, i)
    THEN CHOOSE i \in 0..Len(s) :
            /\ HasPrefixAt(s, sub, i)
            /\ \A j \in 0..(i - 1) : ~HasPrefixAt(s, sub, j)
    ELSE -1

\* strings.Count: the number of non-overlapping occurrences, scanning from
\* the left; Len(s) + 1 for the empty substring
RECURSIVE stringsCount(_, _)
stringsCount(s, sub) ==
    IF sub = <<>> THEN Len(s) + 1
    ELSE LET i == stringsIndex(s, sub) IN
         IF i < 0 THEN 0
         ELSE 1 + stringsCount(SubSeq(s, i + Len(sub) + 1, Len(s)), sub)

\* strings.Replace(s, old, new, 1): the first occurrence replaced
stringsReplaceFirst(s, old, new) ==
    LET i == stringsIndex(s, old) IN
    IF i < 0 THEN s
    ELSE SubSeq(s, 1, i) \o new \o SubSeq(s, i + Len(old) + 1, Len(s))

\* An atom is a string of bytes.  Run(n) is the atom that stands for n bytes
\* of text: an asterisk followed by the digits of n.
Run(n) == "*" \o ToString(n)

Digit(c) == CHOOSE d \in 0..9 : ToString(d) = c

RECURSIVE ParseNat(_)
ParseNat(digits) ==
    IF digits = "" THEN 0
    ELSE 10 * ParseNat(SubSeq(digits, 1, Len(digits) - 1))
            + Digit(SubSeq(digits, Len(digits), Len(digits)))

\* the number of bytes of an atom
AtomBytes(a) ==
    IF Len(a) > 1 /\ Head(a) = "*" THEN ParseNat(Tail(a)) ELSE Len(a)

\* len(s) of a Go string: its number of bytes
RECURSIVE goLen(_)
goLen(s) == IF s = <<>> THEN 0 ELSE AtomBytes(Head(s)) + goLen(Tail(s))

\* the characters names are made of, in byte order
Ascii ==
    " !#$%&()+,-.0123456789;=@ABCDEFGHIJKLMNOPQRSTUVWXYZ[]^_abcdefghijklmnopqrstuvwxyz{}~"

Ord(c) == CHOOSE i \in 1..Len(Ascii) : SubSeq(Ascii, i, i) = c

\* a < b for Go strings a and b held in one atom each: byte-wise order
RECURSIVE StrLess(_, _)
StrLess(a, b) ==
    IF b = "" THEN FALSE
    ELSE IF a = "" THEN TRUE
    ELSE IF Head(a) = Head(b) THEN StrLess(Tail(a), Tail(b))
    ELSE Ord(Head(a)) < Ord(Head(b))

----------------------------------------------------------------------------
(* The filesystem and the file primitives *)

\* A path is a Go string whose atoms are names and the separator "/".
Sep == "/"
Cwd == <<".">>

\* filepath.Dir: the path without its last name, "." when it has one name
filepathDir(path) ==
    IF \E j \in 1..Len(path) : path[j] = Sep
    THEN LET j == CHOOSE k \in 1..Len(path) :
                    /\ path[k] = Sep
                    /\ \A m \in (k + 1)..Len(path) : path[m] # Sep
         IN IF j = 1 THEN <<Sep>> ELSE SubSeq(path, 1, j - 1)
    ELSE Cwd

\* filepath.Base, and fs.DirEntry.Name: the last name of the path
filepathBase(path) == path[Len(path)]

\* filepath.Join(dir, name)
filepathJoin(dir, name) == IF dir = Cwd THEN <<name>> ELSE dir \o <<Sep, name>>

maxFileSize == 5 * 1024 * 1024

\* An entry is nothing, a directory with the names it lists in byte order,
\* a file with its content, or a file that cannot be opened.
NoEntry == [kind |-> "none", data |-> <<>>]
Dir(names) == [kind |-> "dir", data |-> names]
DirEntry == [kind |-> "dir", data |-> <<>>]
FileEntry(content) == [kind |-> "file", data |-> content]
UnreadableFile(content) == [kind |-> "unreadable", data |-> content]
\* a directory that cannot be opened
LockedDir(names) == [kind |-> "lockeddir", data |-> names]

\* fs.DirEntry.IsDir
IsDir(entry) == entry.kind \in {"dir", "lockeddir"}

ErrNone == <<>>

\* os.Stat: the entry at a path; the empty path and unknown paths name nothing
Lookup(fs, path) == IF path \in DOMAIN fs THEN fs[path] ELSE NoEntry

normalizePath(pathStr) ==
    IF pathStr = <<"error">>
    THEN [path |-> <<>>, err |-> <<"test error">>]
    ELSE [path |-> pathStr, err |-> ErrNone]

\* os.ReadFile
osReadFile(fs, path) ==
    LET e == Lookup(fs, path) IN
    IF e.kind = "file" THEN [content |-> e.data, err |-> ErrNone]
    ELSE IF e.kind = "dir"
    THEN [content |-> <<>>, err |-> <<"read ">> \o path \o <<": is a directory">>]
    ELSE IF e.kind = "unreadable"
    THEN [content |-> <<>>, err |-> <<"open ">> \o path \o <<": permission denied">>]
    ELSE [content |-> <<>>,
          err |-> <<"open ">> \o path \o <<": no such file or directory">>]

\* the names of a directory with one more name, in byte order
InsertName(names, name) ==
    LET Before(n) == StrLess(n, name)
        After(n) == StrLess(name, n)
    IN SelectSeq(names, Before) \o <<name>> \o SelectSeq(names, After)

\* fs with the entry at path set, and the name listed by its directory when
\* that is an entry of fs
WithEntry(fs, path, entry) ==
    LET dir == filepathDir(path) IN
    [p \in DOMAIN fs \cup {path} |->
        IF p = path THEN entry
        ELSE IF p = dir /\ fs[p].kind = "dir"
        THEN Dir(InsertName(fs[p].data, filepathBase(path)))
        ELSE fs[p]]

\* os.MkdirAll: creates the directory and the missing ones above it; fails
\* when one of them is a file.  The working directory exists.
RECURSIVE osMkdirAll(_, _)
osMkdirAll(fs, dir) ==
    IF dir = Cwd \/ dir = <<Sep>> \/ Lookup(fs, dir).kind = "dir"
    THEN [fs |-> fs, err |-> ErrNone]
    ELSE IF dir = <<>>
    THEN [fs |-> fs, err |-> <<"mkdir : no such file or directory">>]
    ELSE IF Lookup(fs, dir).kind # "none"
    THEN [fs |-> fs, err |-> <<"mkdir ">> \o dir \o <<": not a directory">>]
    ELSE LET above == osMkdirAll(fs, filepathDir(dir)) IN
         IF above.err # ErrNone THEN [fs |-> fs, err |-> above.err]
         ELSE [fs |-> WithEntry(above.fs, dir, DirEntry), err |-> ErrNone]

\* os.WriteFile: fails on the empty path, on a directory and on a file that
\* cannot be opened, and creates or replaces the file otherwise
osWriteFile(fs, path, content) ==
    IF path = <<>>
    THEN [fs |-> fs, err |-> <<"open : no such file or directory">>]
    ELSE IF Lookup(fs, path).kind = "dir"
    THEN [fs |-> fs, err |-> <<"open ">> \o path \o <<": is a directory">>]
    ELSE IF Lookup(fs, path).kind = "unreadable"
    THEN [fs |-> fs, err |-> <<"open ">> \o path \o <<": permission denied">>]
    ELSE [fs |-> WithEntry(fs, path, FileEntry(content)), err |-> ErrNone]

readLocalFile(fs, filePath) ==
    LET n == normalizePath(filePath)
        e == Lookup(fs, n.path)
        r == osReadFile(fs, n.path)
    IN
    IF n.err # ErrNone
    THEN [content |-> <<>>, err |-> <<"readLocalFile: ">> \o n.err]
    ELSE IF e.kind = "none"
    THEN [content |-> <<>>,
          err |-> <<"failed to stat file ">> \o n.path \o <<": no such file or directory">>]
    ELSE IF goLen(e.data) > maxFileSize
    THEN [content |-> <<>>,
          err |-> <<"file ">> \o n.path \o <<" exceeds size limit">>]
    ELSE IF e.kind = "dir"
    THEN [content |-> <<>>, err |-> n.path \o <<" is a directory, not a file">>]
    ELSE IF r.err # ErrNone
    THEN [content |-> <<>>,
          err |-> <<"failed to read file ">> \o n.path \o <<": ">> \o r.err]
    ELSE [content |-> r.content, err |-> ErrNone]

\* createOrOverwriteFile once os.WriteFile has returned w
createOrOverwriteFileWritten(fs, normalizedPath, w) ==
    IF w.err # ErrNone
    THEN [fs |-> fs,
          err |-> <<"failed to write file ">> \o normalizedPath \o <<": ">> \o w.err]
    ELSE [fs |-> w.fs, err |-> ErrNone]

\* createOrOverwriteFile once os.MkdirAll has returned m
createOrOverwriteFileIn(fs, normalizedPath, content, m) ==
    IF m.err # ErrNone
    THEN [fs |-> fs,
          err |-> <<"failed to create parent directories for ">> \o normalizedPath
                     \o <<": ">> \o m.err]
    ELSE createOrOverwriteFileWritten(m.fs, normalizedPath,
                                      osWriteFile(m.fs, normalizedPath, content))

\* as createOrOverwriteFile, refusing content of maxFileSize bytes too
createOrOverwriteFileBelowLimit(fs, path, content) ==
    LET n == normalizePath(path) IN
    IF n.err # ErrNone
    THEN [fs |-> fs, err |-> <<"createOrOverwriteFile: ">> \o n.err]
    ELSE IF goLen(content) >= maxFileSize
    THEN [fs |-> fs,
          err |-> <<"content for file ">> \o n.path \o <<" exceeds size limit">>]
    ELSE createOrOverwriteFileIn(fs, n.path, content,
                                 osMkdirAll(fs, filepathDir(n.path)))

createOrOverwriteFile(fs, path, content) ==
    LET n == normalizePath(path) IN
    IF n.err # ErrNone
    THEN [fs |-> fs, err |-> <<"createOrOverwriteFile: ">> \o n.err]
    ELSE IF goLen(content) > maxFileSize
    THEN [fs |-> fs,
          err |-> <<"content for file ">> \o n.path \o <<" exceeds size limit">>]
    ELSE createOrOverwriteFileIn(fs, n.path, content,
                                 osMkdirAll(fs, filepathDir(n.path)))

ErrSnippetNotFound(path) == <<"original snippet not found in ">> \o path
ErrAmbiguousEdit(path) == <<"ambiguous edit: original snippet found more than once in ">> \o path

\* applyDiffEdit once createOrOverwriteFile has returned w
applyDiffEditWritten(fs, normalizedPath, w) ==
    IF w.err # ErrNone
    THEN [fs |-> fs,
          err |-> <<"failed to write updated content to ">> \o normalizedPath
                     \o <<": ">> \o w.err]
    ELSE [fs |-> w.fs, err |-> ErrNone]

\* as applyDiffEdit, without the early return for a snippet that is not found
applyDiffEditNoNotFound(fs, path, originalSnippet, newSnippet) ==
    LET n == normalizePath(path)
        r == osReadFile(fs, n.path)
        count == stringsCount(r.content, originalSnippet)
        updatedContent == stringsReplaceFirst(r.content, originalSnippet, newSnippet)
    IN
    IF n.err # ErrNone
    THEN [fs |-> fs, err |-> <<"applyDiffEdit: ">> \o n.err]
    ELSE IF r.err # ErrNone
    THEN [fs |-> fs,
          err |-> <<"failed to read file ">> \o n.path \o <<" for editing: ">> \o r.err]
    ELSE IF count > 1 THEN [fs |-> fs, err |-> ErrAmbiguousEdit(n.path)]
    ELSE applyDiffEditWritten(fs, n.path,
                              createOrOverwriteFile(fs, n.path, updatedContent))

applyDiffEdit(fs, path, originalSnippet, newSnippet) ==
    LET n == normalizePath(path)
        r == osReadFile(fs, n.path)
        count == stringsCount(r.content, originalSnippet)
        updatedContent == stringsReplaceFirst(r.content, originalSnippet, newSnippet)
    IN
    IF n.err # ErrNone
    THEN [fs |-> fs, err |-> <<"applyDiffEdit: ">> \o n.err]
    ELSE IF r.err # ErrNone
    THEN [fs |-> fs,
          err |-> <<"failed to read file ">> \o n.path \o <<" for editing: ">> \o r.err]
    ELSE IF count = 0 THEN [fs |-> fs, err |-> ErrSnippetNotFound(n.path)]
    ELSE IF count > 1 THEN [fs |-> fs, err |-> ErrAmbiguousEdit(n.path)]
    ELSE applyDiffEditWritten(fs, n.path,
                              createOrOverwriteFile(fs, n.path, updatedContent))

----------------------------------------------------------------------------
(* Messages, tool calls and the merge of streamed tool-call deltas *)

RoleSystem == "system"
RoleUser == "user"
RoleAssistant == "assistant"
RoleTool == "tool"

systemPrompt == <<"You are Neo">>

\* openai.ChatCompletionMessage
Message(role, content) ==
    [Role |-> role, Content |-> content, ToolCalls |-> <<>>,
     ToolCallID |-> <<>>, Name |-> <<>>]

\* openai.ToolCall{}: the zero value
EmptyToolCall == [ID |-> <<>>, Type |-> <<>>, Name |-> <<>>, Arguments |-> <<>>]

NilIndex == -1

\* one tool-call delta of a fragment; Index is NilIndex for a nil pointer
Delta(idx, id, type, name, args) ==
    [Index |-> idx, ID |-> id, Type |-> type, Name |-> name, Arguments |-> args]

\* for len(toolCalls) <= idx { toolCalls = append(toolCalls, openai.ToolCall{}) }
Grow(tcs, idx) ==
    tcs \o [k \in 1..(idx + 1 - Len(tcs)) |-> EmptyToolCall]

\* as MergeDelta, but assigning the arguments piece instead of appending it
MergeDeltaAssignArgs(tcs, d) ==
    IF d.Index = NilIndex THEN tcs
    ELSE LET g == Grow(tcs, d.Index)
             old == g[d.Index + 1]
         IN [g EXCEPT ![d.Index + 1] =
                [ID |-> old.ID \o d.ID,
                 Type |-> d.Type,
                 Name |-> IF old.Name = <<>> THEN d.Name ELSE old.Name,
                 Arguments |-> d.Arguments]]

\* as MergeDelta, but letting every non-empty name piece replace the name
MergeDeltaLastName(tcs, d) ==
    IF d.Index = NilIndex THEN tcs
    ELSE LET g == Grow(tcs, d.Index)
             old == g[d.Index + 1]
         IN [g EXCEPT ![d.Index + 1] =
                [ID |-> old.ID \o d.ID,
                 Type |-> d.Type,
                 Name |-> IF d.Name # <<>> THEN d.Name ELSE old.Name,
                 Arguments |-> old.Arguments \o d.Arguments]]

\* the body of the loop over choice.Delta.ToolCalls, for one delta
MergeDelta(tcs, d) ==
    IF d.Index = NilIndex THEN tcs
    ELSE LET g == Grow(tcs, d.Index)
             old == g[d.Index + 1]
         IN [g EXCEPT ![d.Index + 1] =
                [ID |-> old.ID \o d.ID,
                 Type |-> d.Type,
                 Name |-> IF old.Name = <<>> THEN d.Name ELSE old.Name,
                 Arguments |-> old.Arguments \o d.Arguments]]

\* the loop over choice.Delta.ToolCalls
RECURSIVE MergeDeltas(_, _)
MergeDeltas(tcs, ds) ==
    IF ds = <<>> THEN tcs
    ELSE MergeDeltas(MergeDelta(tcs, Head(ds)), Tail(ds))

----------------------------------------------------------------------------
(* History trimming *)

maxMessagesToKeep == 15
minMessagesToTrim == 20

IsSystem(m) == m.Role = RoleSystem
NotSystem(m) == m.Role # RoleSystem

\* as trimConversationHistory, but trimming already at the threshold
trimAtThreshold(h) ==
    LET systemMessages == SelectSeq(h, IsSystem)
        otherMessages == SelectSeq(h, NotSystem)
        startIdx == Max(Len(otherMessages) - maxMessagesToKeep, 0)
    IN IF Len(otherMessages) < minMessagesToTrim THEN h
       ELSE systemMessages \o SubSeq(otherMessages, startIdx + 1, Len(otherMessages))

\* as trimConversationHistory, but keeping the oldest messages
trimKeepsOldest(h) ==
    LET systemMessages == SelectSeq(h, IsSystem)
        otherMessages == SelectSeq(h, NotSystem)
    IN IF Len(otherMessages) <= minMessagesToTrim THEN h
       ELSE systemMessages \o SubSeq(otherMessages, 1, maxMessagesToKeep)

\* as trimConversationHistory, but rebuilding the history with the system
\* messages last
trimOthersFirst(h) ==
    LET systemMessages == SelectSeq(h, IsSystem)
        otherMessages == SelectSeq(h, NotSystem)
        startIdx == Max(Len(otherMessages) - maxMessagesToKeep, 0)
    IN IF Len(otherMessages) <= minMessagesToTrim THEN h
       ELSE SubSeq(otherMessages, startIdx + 1, Len(otherMessages)) \o systemMessages

\* as trimConversationHistory, but trimming only above 21 other messages
trimAboveTwentyOne(h) ==
    LET systemMessages == SelectSeq(h, IsSystem)
        otherMessages == SelectSeq(h, NotSystem)
        startIdx == Max(Len(otherMessages) - maxMessagesToKeep, 0)
    IN IF Len(otherMessages) <= minMessagesToTrim + 1 THEN h
       ELSE systemMessages \o SubSeq(otherMessages, startIdx + 1, Len(otherMessages))

\* the value of ConversationHistory after trimConversationHistory()
trimConversationHistory(h) ==
    LET systemMessages == SelectSeq(h, IsSystem)
        otherMessages == SelectSeq(h, NotSystem)
        startIdx == Max(Len(otherMessages) - maxMessagesToKeep, 0)
    IN IF Len(otherMessages) <= minMessagesToTrim THEN h
       ELSE systemMessages \o SubSeq(otherMessages, startIdx + 1, Len(otherMessages))

----------------------------------------------------------------------------
(* The tool registry, argument parsing and dispatch *)

\* the registry offered to the model: each tool's name and required fields
tools ==
    <<[Name |-> <<"read_file">>, Required |-> <<"file_path">>],
      [Name |-> <<"read_multiple_files">>, Required |-> <<"file_paths">>],
      [Name |-> <<"create_file">>, Required |-> <<"file_path", "content">>],
      [Name |-> <<"create_multiple_files">>, Required |-> <<"files">>],
      [Name |-> <<"edit_file">>,
       Required |-> <<"file_path", "original_snippet", "new_snippet">>]>>

\* JSON tokens: punctuation, and string literals carrying their decoded text
Tok(t) == [t |-> t, s |-> <<>>]
LBrace == Tok("{")
RBrace == Tok("}")
LBracket == Tok("[")
RBracket == Tok("]")
Colon == Tok(":")
Comma == Tok(",")
Str(s) == [t |-> "str", s |-> s]

\* json.Unmarshal's syntax check, for an object whose members have string
\* values: { } or { "k" : "v" , "k" : "v" ... }, anything else is an error
jsonValid(toks) ==
    /\ Len(toks) >= 2
    /\ toks[1] = LBrace
    /\ toks[Len(toks)] = RBrace
    /\ LET m == Len(toks) - 2 IN
       \/ m = 0
       \/ /\ m % 4 = 3
          /\ \A i \in 1..m :
                LET tk == toks[i + 1] IN
                CASE i % 4 = 1 -> tk.t = "str"
                  [] i % 4 = 2 -> tk = Colon
                  [] i % 4 = 3 -> tk.t = "str"
                  [] OTHER -> tk = Comma

\* the positions of the members named key, in a valid object
jsonMembers(toks, key) ==
    {i \in 2..(Len(toks) - 1) : (i - 1) % 4 = 1 /\ toks[i] = Str(<<key>>)}

\* the value json.Unmarshal stores in a string field tagged key: that of the
\* last member of that name, and the zero value "" when there is none
jsonField(toks, key) ==
    LET at == jsonMembers(toks, key) IN
    IF at = {} THEN <<>>
    ELSE toks[(CHOOSE i \in at : \A j \in at : j <= i) + 2].s

\* json.Unmarshal(arguments, &struct) for a struct of string fields with the
\* given tags
jsonUnmarshal(toks, tags) ==
    IF jsonValid(toks)
    THEN [err |-> ErrNone, val |-> [k \in tags |-> jsonField(toks, k)]]
    ELSE [err |-> <<"invalid JSON">>, val |-> [k \in tags |-> <<>>]]

\* the anonymous struct of case "read_file"
ReadArgsTags == {"file_path"}
\* FileToCreate
FileToCreateTags == {"path", "content"}
\* FileToEdit
FileToEditTags == {"path", "original_snippet", "new_snippet"}

\* what a call that reaches no file primitive records
NoOp == [primitive |-> "none", path |-> <<>>, err |-> ErrNone]

\* one pass of the loop over toolCalls: the switch on tc.Function.Name
ExecuteTool(fs, tc) ==
    CASE tc.Name = <<"read_file">> ->
            LET a == jsonUnmarshal(tc.Arguments, ReadArgsTags)
                r == readLocalFile(fs, a.val["file_path"])
            IN IF a.err # ErrNone
               THEN [fs |-> fs, op |-> NoOp,
                     content |-> <<"Error parsing args for read_file: ">> \o a.err]
               ELSE [fs |-> fs,
                     op |-> [primitive |-> "readLocalFile", path |-> a.val["file_path"],
                            err |-> r.err],
                     content |->
                        IF r.err # ErrNone
                        THEN <<"Error reading file ">> \o a.val["file_path"]
                                \o <<": ">> \o r.err
                        ELSE <<"Content of file '">> \o a.val["file_path"]
                                \o <<"':\n\n">> \o r.content]
      [] tc.Name = <<"create_file">> ->
            LET a == jsonUnmarshal(tc.Arguments, FileToCreateTags)
                r == createOrOverwriteFile(fs, a.val["path"], a.val["content"])
            IN IF a.err # ErrNone
               THEN [fs |-> fs, op |-> NoOp,
                     content |-> <<"Error parsing args for create_file: ">> \o a.err]
               ELSE [fs |-> r.fs,
                     op |-> [primitive |-> "createOrOverwriteFile", path |-> a.val["path"],
                            err |-> r.err],
                     content |->
                        IF r.err # ErrNone
                        THEN <<"Error creating file ">> \o a.val["path"]
                                \o <<": ">> \o r.err
                        ELSE <<"Successfully created/overwrote file ">> \o a.val["path"]]
      [] tc.Name = <<"edit_file">> ->
            LET a == jsonUnmarshal(tc.Arguments, FileToEditTags)
                r == applyDiffEdit(fs, a.val["path"], a.val["original_snippet"],
                                   a.val["new_snippet"])
            IN IF a.err # ErrNone
               THEN [fs |-> fs, op |-> NoOp,
                     content |-> <<"Error parsing args for edit_file: ">> \o a.err]
               ELSE [fs |-> r.fs,
                     op |-> [primitive |-> "applyDiffEdit", path |-> a.val["path"],
                            err |-> r.err],
                     content |->
                        IF r.err # ErrNone
                        THEN <<"Error editing file ">> \o a.val["path"]
                                \o <<": ">> \o r.err
                        ELSE <<"Successfully edited file ">> \o a.val["path"]]
      [] OTHER ->
            [fs |-> fs, op |-> NoOp,
             content |-> <<"Placeholder: No actual execution for ">> \o tc.Name
                            \o <<" yet.">>]

\* the tool-role message appended to toolResponses for tc
ToolResponse(tc, content) ==
    [Role |-> RoleTool, Content |-> content, ToolCalls |-> <<>>,
     ToolCallID |-> tc.ID, Name |-> tc.Name]

\* as RunTools, leaving the loop at the first call whose arguments do not
\* parse or whose file primitive fails
RECURSIVE RunToolsAbortOnError(_, _)
RunToolsAbortOnError(fs, tcs) ==
    IF tcs = <<>> THEN [fs |-> fs, toolResponses |-> <<>>, ops |-> <<>>]
    ELSE LET one == ExecuteTool(fs, Head(tcs))
             failed == one.op.err # ErrNone \/ one.content[1] \in
                          {"Error parsing args for read_file: ",
                           "Error parsing args for create_file: ",
                           "Error parsing args for edit_file: "}
             rest == IF failed
                     THEN [fs |-> one.fs, toolResponses |-> <<>>, ops |-> <<>>]
                     ELSE RunToolsAbortOnError(one.fs, Tail(tcs))
         IN [fs |-> rest.fs,
             toolResponses |-> <<ToolResponse(Head(tcs), one.content)>> \o rest.toolResponses,
             ops |-> <<one.op>> \o rest.ops]

\* the loop over toolCalls: the filesystem afterwards, toolResponses, and the
\* primitive each call invoked with the error it returned
RECURSIVE RunTools(_, _)
RunTools(fs, tcs) ==
    IF tcs = <<>> THEN [fs |-> fs, toolResponses |-> <<>>, ops |-> <<>>]
    ELSE LET one == ExecuteTool(fs, Head(tcs))
             rest == RunTools(one.fs, Tail(tcs))
         IN [fs |-> rest.fs,
             toolResponses |-> <<ToolResponse(Head(tcs), one.content)>> \o rest.toolResponses,
             ops |-> <<one.op>> \o rest.ops]

----------------------------------------------------------------------------
(* State shared by the specifications: what each leaves at rest *)

NoTurn == [histBefore |-> <<>>, trimmed |-> FALSE, script |-> "none",
           ended |-> "none", followUp |-> "none", ops |-> <<>>,
           filesBefore |-> <<>>]

NoEdit == [path |-> <<>>, originalSnippet |-> <<>>, newSnippet |-> <<>>]

SeededHistory == <<Message(RoleSystem, systemPrompt)>>

\* no stream opened, no deferred call
NoStreams == [first |-> "none", followUp |-> "none", deferred |-> <<>>]

\* no walk started
NoScan == [phase |-> "none"]

SessionAtRest ==
    /\ ConversationHistory = SeededHistory
    /\ pc = "idle"
    /\ stream = <<>>
    /\ fullResponse = <<>>
    /\ toolCalls = <<>>
    /\ finalNaturalResponse = <<>>
    /\ inputs = 0
    /\ turn = NoTurn
    /\ streams = NoStreams

sessionVars == <<ConversationHistory, pc, stream, fullResponse, toolCalls,
                 finalNaturalResponse, inputs, turn, streams>>

----------------------------------------------------------------------------
(* The session: executor and StreamAIResponse *)

\* one fragment of a streamed reply: response.Choices[0].Delta, or no choice
Fragment(content, deltas) ==
    [HasChoice |-> TRUE, Content |-> content, ToolCalls |-> deltas]
NoChoiceFragment == [HasChoice |-> FALSE, Content |-> <<>>, ToolCalls |-> <<>>]

\* the id the endpoint gives the k-th tool call of the reply to input n
CallID(n, k) == <<"call_", ToString(n), "_", ToString(k)>>

\* the arguments text of an object with the given keys and string values
RECURSIVE ObjectMembers(_, _)
ObjectMembers(keys, vals) ==
    IF keys = <<>> THEN <<>>
    ELSE <<Str(<<Head(keys)>>), Colon, Str(Head(vals))>>
            \o (IF Len(keys) > 1 THEN <<Comma>> ELSE <<>>)
            \o ObjectMembers(Tail(keys), Tail(vals))

Object(keys, vals) == <<LBrace>> \o ObjectMembers(keys, vals) \o <<RBrace>>

\* a whole tool call in one delta
WholeCall(idx, id, name, args) == Delta(idx, id, <<"function">>, name, args)

FooPath == <<"foo.txt">>
OldPath == <<"a.txt">>
ContentX == <<"X">>

\* arguments that follow the registered schema of tools[k]
SchemaArgs(k) ==
    CASE k = 1 -> Object(tools[1].Required, <<OldPath>>)
      [] k = 2 -> <<LBrace, Str(<<"file_paths">>), Colon,
                    LBracket, Str(OldPath), Comma, Str(FooPath), RBracket, RBrace>>
      [] k = 3 -> Object(tools[3].Required, <<FooPath, ContentX>>)
      [] k = 4 -> <<LBrace, Str(<<"files">>), Colon, LBracket>>
                    \o Object(<<"path", "content">>, <<FooPath, ContentX>>)
                    \o <<RBracket, RBrace>>
      [] k = 5 -> Object(tools[5].Required, <<OldPath, <<"old">>, <<"new">>>>)

\* the reply that is one call of tools[k] with arguments following its schema
SchemaCallReply(n, k) ==
    <<Fragment(<<>>, <<WholeCall(0, CallID(n, 0), tools[k].Name, SchemaArgs(k))>>)>>

\* the replies the endpoint may stream to the first request of input n
Replies(n) ==
    [text |-> <<Fragment(<<"Hello">>, <<>>), NoChoiceFragment>>,
     read_file |-> SchemaCallReply(n, 1),
     read_multiple_files |-> SchemaCallReply(n, 2),
     create_file |->
        <<Fragment(<<>>, <<WholeCall(0, CallID(n, 0), <<"create_file">>,
                                     SubSeq(SchemaArgs(3), 1, 5))>>),
          Fragment(<<>>, <<Delta(0, <<>>, <<>>, <<>>,
                                 SubSeq(SchemaArgs(3), 6, Len(SchemaArgs(3))))>>)>>,
     create_multiple_files |-> SchemaCallReply(n, 4),
     edit_file |-> SchemaCallReply(n, 5),
     create_by_path |->
        <<Fragment(<<"Creating">>,
                   <<WholeCall(0, CallID(n, 0), <<"create_file">>,
                               Object(<<"path", "content">>, <<OldPath, <<"old", "old">>>>))>>)>>,
     edit_by_path |->
        <<Fragment(<<>>,
                   <<WholeCall(1, CallID(n, 1), <<"edit_file">>,
                               Object(<<"path", "original_snippet", "new_snippet">>,
                                      <<OldPath, <<"old">>, <<"new">>>>))>>)>>,
     errors_then_create |->
        <<Fragment(<<>>,
                   <<WholeCall(0, CallID(n, 0), <<"read_file">>, <<LBrace>>),
                     WholeCall(1, CallID(n, 1), <<"read_file">>,
                               Object(<<"file_path">>, <<FooPath>>)),
                     WholeCall(2, CallID(n, 2), <<"create_file">>,
                               Object(<<"path", "content">>, <<FooPath, ContentX>>))>>)>>]

\* the replies of the history specification: text, or five reads at once
HistReplies(n) ==
    [text |-> <<Fragment(<<"Hello">>, <<>>)>>,
     read_five |->
        <<Fragment(<<>>,
                   [k \in 1..5 |->
                      WholeCall(k - 1, CallID(n, k - 1), <<"read_file">>,
                                SchemaArgs(1))])>>]

\* the replies the endpoint may stream to the follow-up request
FollowUps ==
    [empty |-> <<>>,
     text |-> <<Fragment(<<"Done">>, <<>>)>>]

UserTexts == {<<"hello">>}

InitialFiles == (OldPath :> FileEntry(<<"old">>))

\* before StreamAIResponse constructs its formatter
NoFormatter == [phase |-> "none"]

otherVars == <<editIn, editLog, received, scan, formatter>>

\* client.CreateChatCompletionStream succeeds: the stream which is open
OpenStream(st, which) == [st EXCEPT ![which] = "open"]

\* defer <which>.Close(): the call is pushed on the deferred calls
Defer(st, which) == [st EXCEPT !.deferred = <<which>> \o st.deferred]

\* as runDeferred, running only the call deferred last
runDeferredLastOnly(st) ==
    [first |-> IF st.deferred # <<>> /\ st.deferred[1] = "first"
               THEN "closed" ELSE st.first,
     followUp |-> IF st.deferred # <<>> /\ st.deferred[1] = "followUp"
                  THEN "closed" ELSE st.followUp,
     deferred |-> <<>>]

\* return from StreamAIResponse: the deferred Close calls run
runDeferred(st) ==
    [first |-> IF \E i \in 1..Len(st.deferred) : st.deferred[i] = "first"
               THEN "closed" ELSE st.first,
     followUp |-> IF \E i \in 1..Len(st.deferred) : st.deferred[i] = "followUp"
                  THEN "closed" ELSE st.followUp,
     deferred |-> <<>>]

\* executor's default branch up to the failure of CreateChatCompletionStream:
\* trim, append the user message, and remove it again
SubmitUserTurnOpenFails(maxInputs) ==
    /\ pc = "idle"
    /\ inputs < maxInputs
    /\ \E userMessage \in UserTexts :
          LET trimmed == trimConversationHistory(ConversationHistory)
              withUser == Append(trimmed, Message(RoleUser, userMessage))
          IN /\ ConversationHistory' = SubSeq(withUser, 1, Len(withUser) - 1)
             /\ turn' = [histBefore |-> trimmed,
                         trimmed |-> trimmed # ConversationHistory,
                         script |-> "none",
                         ended |-> "open-failed", followUp |-> "none",
                         ops |-> <<>>, filesBefore |-> files]
    /\ inputs' = inputs + 1
    /\ streams' = NoStreams
    /\ UNCHANGED <<pc, stream, fullResponse, toolCalls, finalNaturalResponse,
                   files, otherVars>>

\* executor's default branch up to the first stream.Recv: trim, append the
\* user message, open the stream.  (main seeds ConversationHistory before
\* the first input and no later assignment makes it nil, so the nil check
\* of StreamAIResponse never seeds again.)
SubmitUserTurn(replies, maxInputs) ==
    /\ pc = "idle"
    /\ inputs < maxInputs
    /\ \E userMessage \in UserTexts, script \in DOMAIN replies :
          LET trimmed == trimConversationHistory(ConversationHistory)
          IN /\ ConversationHistory' = Append(trimmed, Message(RoleUser, userMessage))
             /\ stream' = replies[script]
             /\ turn' = [histBefore |-> trimmed,
                         trimmed |-> trimmed # ConversationHistory,
                         script |-> script,
                         ended |-> "none", followUp |-> "none",
                         ops |-> <<>>, filesBefore |-> files]
    /\ pc' = "recv"
    /\ streams' = Defer(OpenStream(NoStreams, "first"), "first")
    /\ fullResponse' = <<>>
    /\ toolCalls' = <<>>
    /\ finalNaturalResponse' = <<>>
    /\ inputs' = inputs + 1
    /\ UNCHANGED <<files, otherVars>>

\* stream.Recv delivers a fragment of the first reply
RecvFragment ==
    /\ pc = "recv"
    /\ stream # <<>>
    /\ LET response == Head(stream) IN
          /\ fullResponse' =
                IF response.HasChoice THEN fullResponse \o response.Content
                ELSE fullResponse
          /\ toolCalls' =
                IF response.HasChoice THEN MergeDeltas(toolCalls, response.ToolCalls)
                ELSE toolCalls
    /\ stream' = Tail(stream)
    /\ UNCHANGED <<ConversationHistory, pc, finalNaturalResponse, files, inputs,
                   turn, streams, otherVars>>

\* the assistant message that carries the merged tool calls
assistantMsgWithTools ==
    [Role |-> RoleAssistant, Content |-> <<>>, ToolCalls |-> toolCalls,
     ToolCallID |-> <<>>, Name |-> <<>>]

\* as WithAssistantMessages, with the tool calls put into the text message
\* when there is one
WithAssistantMessagesMerged(h) ==
    IF Len(toolCalls) = 0
    THEN IF fullResponse # <<>>
         THEN Append(h, Message(RoleAssistant, fullResponse))
         ELSE h
    ELSE Append(h, [assistantMsgWithTools EXCEPT !.Content = fullResponse])

\* the history after the text message and the tool-calls message are added
WithAssistantMessages(h) ==
    LET withText ==
            IF fullResponse # <<>>
            THEN Append(h, Message(RoleAssistant, fullResponse))
            ELSE h
    IN IF Len(toolCalls) = 0 THEN withText
       ELSE IF fullResponse = <<>> THEN Append(withText, assistantMsgWithTools)
       ELSE IF Len(withText) > 0 /\ withText[Len(withText)].Role = RoleAssistant
       THEN Append(withText, assistantMsgWithTools)
       ELSE withText

\* StreamAIResponse from the end of the first receive loop to the opening of
\* the follow-up stream; how is "eof" or "error", followOpens says whether
\* the follow-up stream opens, follow is the reply it will deliver
AfterFirstStream(how, followOpens, follow) ==
    \E h \in {WithAssistantMessages(ConversationHistory)},
       run \in {RunTools(files, toolCalls)} :
       IF Len(toolCalls) = 0
       THEN /\ ConversationHistory' = h
            /\ pc' = "idle"
            /\ stream' = <<>>
            /\ turn' = [turn EXCEPT !.ended = how]
            /\ streams' = runDeferred(streams)
            /\ UNCHANGED files
       ELSE /\ ConversationHistory' = h \o run.toolResponses
            /\ files' = run.fs
            /\ pc' = IF followOpens THEN "recv2" ELSE "idle"
            /\ stream' = IF followOpens THEN follow ELSE <<>>
            /\ streams' = IF followOpens
                          THEN Defer(OpenStream(streams, "followUp"), "followUp")
                          ELSE runDeferred(streams)
            /\ turn' = [turn EXCEPT !.ended = how, !.ops = run.ops,
                           !.followUp = IF followOpens THEN "opened" ELSE "open-failed"]

\* stream.Recv returns io.EOF on the first stream
RecvEOF ==
    /\ pc = "recv"
    /\ stream = <<>>
    /\ \E followOpens \in BOOLEAN, f \in DOMAIN FollowUps :
          AfterFirstStream("eof", followOpens, FollowUps[f])
    /\ UNCHANGED <<fullResponse, toolCalls, finalNaturalResponse, inputs, otherVars>>

\* stream.Recv returns another error on the first stream
RecvError ==
    /\ pc = "recv"
    /\ \E followOpens \in BOOLEAN, f \in DOMAIN FollowUps :
          AfterFirstStream("error", followOpens, FollowUps[f])
    /\ UNCHANGED <<fullResponse, toolCalls, finalNaturalResponse, inputs, otherVars>>

\* toolResponseStream.Recv delivers a fragment of the follow-up reply
RecvFollowFragment ==
    /\ pc = "recv2"
    /\ stream # <<>>
    /\ LET response == Head(stream) IN
          finalNaturalResponse' =
             IF response.HasChoice /\ response.Content # <<>>
             THEN finalNaturalResponse \o response.Content
             ELSE finalNaturalResponse
    /\ stream' = Tail(stream)
    /\ UNCHANGED <<ConversationHistory, pc, fullResponse, toolCalls, files,
                   inputs, turn, streams, otherVars>>

\* StreamAIResponse after the follow-up receive loop
AfterFollowUp(how) ==
    /\ ConversationHistory' =
          IF finalNaturalResponse # <<>>
          THEN Append(ConversationHistory, Message(RoleAssistant, finalNaturalResponse))
          ELSE ConversationHistory
    /\ pc' = "idle"
    /\ stream' = <<>>
    /\ turn' = [turn EXCEPT !.followUp = how]
    /\ streams' = runDeferred(streams)
    /\ UNCHANGED <<fullResponse, toolCalls, finalNaturalResponse, files, inputs,
                   otherVars>>

\* toolResponseStream.Recv returns io.EOF
RecvFollowEOF ==
    /\ pc = "recv2"
    /\ stream = <<>>
    /\ AfterFollowUp("eof")

\* toolResponseStream.Recv returns another error
RecvFollowError ==
    /\ pc = "recv2"
    /\ AfterFollowUp("error")

\* as clearedHistory, keeping every system message
clearedHistoryKeepsSystem(h) ==
    IF Len(h) > 0 /\ h[1].Role = RoleSystem
    THEN SelectSeq(h, IsSystem)
    ELSE <<Message(RoleSystem, systemPrompt)>>

\* the history /clear leaves
clearedHistory(h) ==
    IF Len(h) > 0 /\ h[1].Role = RoleSystem
    THEN <<h[1]>>
    ELSE <<Message(RoleSystem, systemPrompt)>>

\* executor, /clear
ClearCommand(maxInputs) ==
    /\ pc = "idle"
    /\ inputs < maxInputs
    /\ ConversationHistory' = clearedHistory(ConversationHistory)
    /\ inputs' = inputs + 1
    /\ turn' = [NoTurn EXCEPT !.script = "/clear",
                              !.histBefore = ConversationHistory]
    /\ UNCHANGED <<pc, stream, fullResponse, toolCalls, finalNaturalResponse,
                   files, streams, otherVars>>

\* what addDirectoryToConversationHelper may return for /add <AddRoot>: an
\* error, or the admitted files (relative path and content)
AddRoot == <<"dir">>
ScanResults ==
    {[err |-> <<"error walking directory">>, added |-> <<>>],
     [err |-> ErrNone, added |-> <<>>],
     [err |-> ErrNone, added |-> <<[relPath |-> <<"notes.txt">>, content |-> <<"n">>]>>]}

\* the system message /add appends for one admitted file
ContextMessage(pathToAdd, f) ==
    Message(RoleSystem,
            <<"Content of file '">>
                \o (IF pathToAdd = Cwd THEN f.relPath
                    ELSE pathToAdd \o <<Sep>> \o f.relPath)
                \o <<"':\n\n">> \o f.content)

\* executor, /add <path>
AddCommand(maxInputs) ==
    /\ pc = "idle"
    /\ inputs < maxInputs
    /\ \E result \in ScanResults :
          ConversationHistory' =
             IF result.err # ErrNone THEN ConversationHistory
             ELSE ConversationHistory
                    \o [k \in 1..Len(result.added) |->
                          ContextMessage(AddRoot, result.added[k])]
    /\ inputs' = inputs + 1
    /\ turn' = NoTurn
    /\ UNCHANGED <<pc, stream, fullResponse, toolCalls, finalNaturalResponse,
                   files, streams, otherVars>>

Init ==
    /\ SessionAtRest
    /\ files = InitialFiles
    /\ editIn = NoEdit
    /\ editLog = <<>>
    /\ received = <<>>
    /\ scan = NoScan
    /\ formatter = NoFormatter

Next ==
    \/ SubmitUserTurnOpenFails(MaxInputs)
    \/ SubmitUserTurn(Replies(inputs + 1), MaxInputs)
    \/ RecvFragment
    \/ RecvEOF
    \/ RecvError
    \/ RecvFollowFragment
    \/ RecvFollowEOF
    \/ RecvFollowError
    \/ ClearCommand(MaxInputs)
    \/ AddCommand(MaxInputs)

Spec == Init /\ [][Next]_vars

NextHist ==
    \/ SubmitUserTurnOpenFails(MaxHistInputs)
    \/ SubmitUserTurn(HistReplies(inputs + 1), MaxHistInputs)
    \/ RecvFragment
    \/ RecvEOF
    \/ RecvError
    \/ RecvFollowFragment
    \/ RecvFollowEOF
    \/ RecvFollowError
    \/ ClearCommand(MaxHistInputs)
    \/ AddCommand(MaxHistInputs)

SpecHist == Init /\ [][NextHist]_vars

----------------------------------------------------------------------------
(* Claims about the session *)

\* the messages the turn in progress, or last ended, has added to the history
TurnSuffix ==
    SubSeq(ConversationHistory, Len(turn.histBefore) + 1, Len(ConversationHistory))

IsTool(m) == m.Role = RoleTool
IsAssistant(m) == m.Role = RoleAssistant

\* C2 as stated: whenever the first streaming request of a user turn fails,
\* when the stream is opened or on a later receive, the history after
\* StreamAIResponse returns is the trimmed history from before the user
\* message was appended.
C2_RollbackOnTransportFailure ==
    (pc = "idle" /\ turn.ended \in {"open-failed", "error"})
        => ConversationHistory = turn.histBefore

\* C3 as stated: after a receive error on the first stream no assistant
\* message is appended, no tool call is dispatched (no file primitive runs,
\* the filesystem is unchanged) and no follow-up request is issued.
C3_TransportFailureAbortsTurn ==
    turn.ended = "error" =>
        /\ SelectSeq(TurnSuffix, IsAssistant) = <<>>
        /\ SelectSeq(TurnSuffix, IsTool) = <<>>
        /\ turn.ops = <<>>
        /\ files = turn.filesBefore
        /\ turn.followUp = "none"

\* C4 as stated: in every reachable state every tool-role message carries a
\* ToolCallID equal to the id of a tool call listed in an assistant message
\* at an earlier position of the history.
C4_ToolResultReferentialIntegrity ==
    \A k \in 1..Len(ConversationHistory) :
        ConversationHistory[k].Role = RoleTool =>
            \E j \in 1..(k - 1) :
                /\ ConversationHistory[j].Role = RoleAssistant
                /\ \E c \in 1..Len(ConversationHistory[j].ToolCalls) :
                      ConversationHistory[j].ToolCalls[c].ID
                          = ConversationHistory[k].ToolCallID

\* C5: in every reachable state the history is non-empty and its first
\* message is the system message seeded at startup.
C5_FirstMessageIsSystemPrompt ==
    /\ Len(ConversationHistory) > 0
    /\ ConversationHistory[1] = Message(RoleSystem, systemPrompt)

C5_Witness ==
    /\ turn.trimmed
    /\ pc = "recv2"
    /\ Len(SelectSeq(ConversationHistory, IsSystem)) > 1
    /\ ConversationHistory[1] = Message(RoleSystem, systemPrompt)

\* C7 as stated: a turn whose streamed reply is exactly one create_file call
\* with arguments following the registered schema (file_path = foo.txt,
\* content = X) yields one tool-role message confirming creation, the file
\* foo.txt with content X, and a follow-up assistant message without tool
\* calls.
C7_CreateFileEndToEnd ==
    (turn.script = "create_file" /\ turn.ended = "eof") =>
        /\ Len(SelectSeq(TurnSuffix, IsTool)) = 1
        /\ SelectSeq(TurnSuffix, IsTool)[1].Content
              = <<"Successfully created/overwrote file ">> \o FooPath
        /\ Lookup(files, FooPath) = FileEntry(ContentX)
        /\ (turn.followUp = "eof" /\ finalNaturalResponse # <<>>) =>
              /\ ConversationHistory[Len(ConversationHistory)].Role = RoleAssistant
              /\ ConversationHistory[Len(ConversationHistory)].ToolCalls = <<>>

\* the file primitive the registry's k-th tool stands for
RegisteredPrimitive ==
    <<"readLocalFile", "readLocalFile", "createOrOverwriteFile",
      "createOrOverwriteFile", "applyDiffEdit">>

\* C8 as stated: a tool call with one of the five registered names and
\* well-formed arguments is dispatched to the matching file primitive, and
\* its tool-result content is that primitive's summary or error text.
C8_DispatchCoversRegistry ==
    (turn.ended \in {"eof", "error"} /\ Len(turn.ops) = Len(toolCalls)) =>
        \A k \in 1..Len(toolCalls), t \in 1..Len(tools) :
            (toolCalls[k].Name = tools[t].Name /\ toolCalls[k].Arguments = SchemaArgs(t))
                => /\ turn.ops[k].primitive = RegisteredPrimitive[t]
                   /\ SelectSeq(TurnSuffix, IsTool)[k].Content
                         # <<"Placeholder: No actual execution for ">>
                              \o tools[t].Name \o <<" yet.">>

\* the tool-role messages the turn has added, in order
ToolMessages == SelectSeq(TurnSuffix, IsTool)

\* C23 as stated: a turn whose streamed reply is one edit_file call with
\* arguments following the registered schema (file_path = a.txt,
\* original_snippet = old, new_snippet = new), made when old occurs exactly
\* once in a.txt, leaves a.txt with that occurrence replaced by new and
\* yields a tool-role message reporting success.
C23_EditFileBySchema ==
    (/\ turn.script = "edit_file"
     /\ turn.ended = "eof"
     /\ stringsCount(Lookup(turn.filesBefore, OldPath).data, <<"old">>) = 1)
        => /\ Lookup(files, OldPath).data
                 = stringsReplaceFirst(Lookup(turn.filesBefore, OldPath).data,
                                       <<"old">>, <<"new">>)
           /\ Len(ToolMessages) = 1
           /\ ToolMessages[1].Content = <<"Successfully edited file ">> \o OldPath

\* the indexes of the tool-call deltas the first reply of the turn carried
ReceivedIndexes ==
    LET reply == Replies(inputs)[turn.script] IN
    UNION {{reply[i].ToolCalls[j].Index : j \in 1..Len(reply[i].ToolCalls)} :
              i \in 1..Len(reply)} \ {NilIndex}

HasToolCalls(m) == m.ToolCalls # <<>>

\* the tool calls stored in the assistant messages the turn has added
StoredToolCalls ==
    LET withCalls == SelectSeq(TurnSuffix, HasToolCalls) IN
    IF withCalls = <<>> THEN <<>> ELSE withCalls[1].ToolCalls

\* C30: when a turn has ended after the whole first reply, the k-th stored
\* tool call belongs to an index for which a delta was received, and there
\* are as many stored tool calls and as many tool-role messages as indexes
\* received: an index the stream skipped yields no tool call and no
\* tool-role message.
C30_NoToolCallForSkippedIndex ==
    (/\ pc = "idle"
     /\ turn.script \in DOMAIN Replies(inputs)
     /\ turn.ended = "eof")
        => /\ \A k \in 1..Len(StoredToolCalls) : (k - 1) \in ReceivedIndexes
           /\ Len(StoredToolCalls) = Cardinality(ReceivedIndexes)
           /\ Len(ToolMessages) = Cardinality(ReceivedIndexes)

\* the number of non-system messages of a message list
NonSystemCount(h) == Len(SelectSeq(h, NotSystem))

\* C31: the message list of the first streaming request of a turn, which is
\* the trimmed history followed by the new user message and is the history
\* while the first stream is received, holds at most 21 non-system messages:
\* at most 20 after trimming, and the user message.
C31_BoundedRequestContext ==
    /\ pc = "recv" =>
          /\ ConversationHistory[Len(ConversationHistory)].Role = RoleUser
          /\ SubSeq(ConversationHistory, 1, Len(ConversationHistory) - 1)
                = turn.histBefore
          /\ NonSystemCount(ConversationHistory) <= 21
    /\ (pc = "recv" \/ turn.ended # "none") =>
          NonSystemCount(turn.histBefore) <= 20

\* a request with exactly 21 non-system messages, tool-result messages of
\* earlier turns among them, is sent
C31_Witness ==
    /\ pc = "recv"
    /\ stream # <<>>
    /\ NonSystemCount(ConversationHistory) = 21
    /\ \E i \in 1..Len(ConversationHistory) : IsTool(ConversationHistory[i])

\* the names whose case in the switch parses the arguments
ParsedNames == {<<"read_file">>, <<"create_file">>, <<"edit_file">>}

\* s ends with suffix
HasSuffix(s, suffix) ==
    /\ Len(suffix) <= Len(s)
    /\ SubSeq(s, Len(s) - Len(suffix) + 1, Len(s)) = suffix

\* C11: once the tool calls of a turn have been executed there is one
\* tool-role message per call; a call whose arguments fail to parse has a
\* message that starts "Error parsing args for <name>", a call whose file
\* primitive failed has a message that starts "Error" and ends with the
\* primitive's error; every call that parses reaches its file primitive
\* whatever happened to the calls before it; and the follow-up request is
\* issued.
C11_ToolFailuresAreData ==
    (turn.ended \in {"eof", "error"} /\ Len(toolCalls) > 0) =>
        /\ Len(ToolMessages) = Len(toolCalls)
        /\ Len(turn.ops) = Len(toolCalls)
        /\ \A k \in 1..Len(toolCalls) :
              LET tc == toolCalls[k]
                  msg == ToolMessages[k]
              IN /\ msg.ToolCallID = tc.ID
                 /\ (tc.Name \in ParsedNames /\ ~jsonValid(tc.Arguments)) =>
                        /\ msg.Content[1] \in {"Error parsing args for read_file: ",
                                                "Error parsing args for create_file: ",
                                                "Error parsing args for edit_file: "}
                        /\ turn.ops[k].primitive = "none"
                 /\ (tc.Name \in ParsedNames /\ jsonValid(tc.Arguments)) =>
                        turn.ops[k].primitive # "none"
                 /\ turn.ops[k].err # ErrNone =>
                        /\ msg.Content[1] \in {"Error reading file ",
                                                "Error creating file ",
                                                "Error editing file "}
                        /\ HasSuffix(msg.Content, <<": ">> \o turn.ops[k].err)
        /\ turn.followUp \in {"opened", "open-failed", "eof", "error"}

C11_Witness ==
    /\ turn.script = "errors_then_create"
    /\ turn.ended = "eof"
    /\ Len(toolCalls) = 3
    /\ ~jsonValid(toolCalls[1].Arguments)
    /\ turn.ops[2].err # ErrNone
    /\ Lookup(turn.filesBefore, FooPath) = NoEntry
    /\ Lookup(files, FooPath) = FileEntry(ContentX)
    /\ turn.followUp = "opened"

\* C12: when a turn with k >= 1 merged tool calls has ended with both
\* streams at end-of-stream, the messages it added are, in order: the user
\* message; an assistant message with the accumulated text and no tool
\* calls, present exactly when that text is non-empty; an assistant message
\* with no text and exactly the k merged tool calls; k tool-role messages,
\* the i-th with the id and name of the i-th call; and an assistant message
\* with the follow-up text, present exactly when that text is non-empty.
C12_TurnSuffixShape ==
    (turn.ended = "eof" /\ turn.followUp = "eof" /\ Len(toolCalls) >= 1) =>
        LET k == Len(toolCalls)
            t == IF fullResponse # <<>> THEN 1 ELSE 0
            f == IF finalNaturalResponse # <<>> THEN 1 ELSE 0
            sfx == TurnSuffix
        IN /\ Len(sfx) = 1 + t + 1 + k + f
           /\ sfx[1].Role = RoleUser
           /\ sfx[1].Content \in UserTexts
           /\ t = 1 => sfx[2] = Message(RoleAssistant, fullResponse)
           /\ sfx[t + 2].Role = RoleAssistant
           /\ sfx[t + 2].Content = <<>>
           /\ sfx[t + 2].ToolCalls = toolCalls
           /\ \A i \in 1..k :
                 /\ sfx[t + 2 + i].Role = RoleTool
                 /\ sfx[t + 2 + i].ToolCallID = toolCalls[i].ID
                 /\ sfx[t + 2 + i].Name = toolCalls[i].Name
                 /\ sfx[t + 2 + i].ToolCalls = <<>>
           /\ f = 1 => sfx[Len(sfx)] = Message(RoleAssistant, finalNaturalResponse)

C12_Witness ==
    /\ turn.script = "create_by_path"
    /\ turn.ended = "eof"
    /\ turn.followUp = "eof"
    /\ fullResponse # <<>>
    /\ finalNaturalResponse # <<>>
    /\ Len(toolCalls) = 1
    /\ Len(TurnSuffix) = 5

\* C18: whenever StreamAIResponse is not running, no stream it opened is
\* open: the first stream and the follow-up stream are closed on return
\* after end-of-stream, after a receive error and after a failure to open
\* the follow-up stream.
C18_StreamsClosedOnReturn ==
    pc = "idle" =>
        /\ streams.first \in {"none", "closed"}
        /\ streams.followUp \in {"none", "closed"}
        /\ turn.ended \in {"eof", "error"} => streams.first = "closed"
        /\ turn.followUp \in {"eof", "error"} => streams.followUp = "closed"

C18_Witness ==
    /\ pc = "idle"
    /\ turn.ended = "error"
    /\ turn.followUp = "open-failed"
    /\ streams.first = "closed"
    /\ streams.followUp = "none"

\* C20: right after /clear, whatever the history was, the history is
\* exactly one message: the system prompt seeded at session start.
C20_ClearLeavesSeededPrompt ==
    turn.script = "/clear" => ConversationHistory = SeededHistory

C20_Witness ==
    /\ turn.script = "/clear"
    /\ Len(SelectSeq(turn.histBefore, IsSystem)) > 1
    /\ Len(SelectSeq(turn.histBefore, IsTool)) > 0
    /\ Len(turn.histBefore) > maxMessagesToKeep
    /\ ConversationHistory = SeededHistory

----------------------------------------------------------------------------
(* SpecEdit: applyDiffEdit applied twice with the same arguments *)

Alphabet == {"a", "b"}

Strings(n) == UNION {[1..k -> Alphabet] : k \in 0..n}

EditPath == <<"f.txt">>

InitEdit ==
    /\ SessionAtRest
    /\ received = <<>>
    /\ scan = NoScan
    /\ formatter = NoFormatter
    /\ \E e \in {NoEntry} \cup {FileEntry(c) : c \in Strings(MaxLen)} :
          files = [p \in {EditPath} |-> e]
    /\ \E o \in Strings(MaxLen), n \in Strings(MaxLen) :
          editIn = [path |-> EditPath, originalSnippet |-> o, newSnippet |-> n]
    /\ editLog = <<>>

\* one call of applyDiffEdit with the arguments under study
EditStep ==
    /\ Len(editLog) < 2
    /\ LET r == applyDiffEdit(files, editIn.path, editIn.originalSnippet,
                              editIn.newSnippet)
       IN /\ files' = r.fs
          /\ editLog' = Append(editLog,
                 [before |-> Lookup(files, editIn.path),
                  after |-> Lookup(r.fs, editIn.path),
                  err |-> r.err])
    /\ UNCHANGED <<sessionVars, editIn, received, scan, formatter>>

NextEdit == EditStep

SpecEdit == InitEdit /\ [][NextEdit]_vars

\* s contains sub as an exact substring
Occurs(s, sub) == \E i \in 0..Len(s) : HasPrefixAt(s, sub, i)

\* the number of places of s where sub occurs as an exact substring
Occurrences(s, sub) == Cardinality({i \in 0..Len(s) : HasPrefixAt(s, sub, i)})

\* C9 as stated: whenever a first applyDiffEdit succeeds, a second one with
\* the same path and snippets fails with the not-found error and leaves the
\* file unchanged.
C9_SecondEditAlwaysNotFound ==
    (Len(editLog) = 2 /\ editLog[1].err = ErrNone)
        => /\ editLog[2].err = ErrSnippetNotFound(editIn.path)
           /\ editLog[2].after = editLog[2].before

\* C9 amended: whenever a first applyDiffEdit succeeds and the original
\* snippet does not occur in the edited content, a second one with the same
\* path and snippets fails with the not-found error and leaves the file
\* unchanged.
C9_SecondEditNotFoundWhenSnippetGone ==
    (/\ Len(editLog) = 2
     /\ editLog[1].err = ErrNone
     /\ ~Occurs(editLog[1].after.data, editIn.originalSnippet))
        => /\ editLog[2].err = ErrSnippetNotFound(editIn.path)
           /\ editLog[2].after = editLog[2].before

C9_Witness ==
    /\ Len(editLog) = 2
    /\ editLog[1].err = ErrNone
    /\ editLog[1].after # editLog[1].before
    /\ ~Occurs(editLog[1].after.data, editIn.originalSnippet)
    /\ editLog[2].err = ErrSnippetNotFound(editIn.path)

\* C10 as stated: applyDiffEdit fails with the not-found error when the
\* snippet does not occur in the file, fails with the ambiguous-edit error
\* when it occurs more than once as an exact substring, in both cases
\* without a write; only when it occurs exactly once is it replaced.
C10_UniqueAddressability ==
    \A k \in 1..Len(editLog) :
        LET e == editLog[k]
            occ == Occurrences(e.before.data, editIn.originalSnippet)
        IN e.before.kind = "file" =>
            /\ occ = 0 => (e.err = ErrSnippetNotFound(editIn.path) /\ e.after = e.before)
            /\ occ > 1 => (e.err = ErrAmbiguousEdit(editIn.path) /\ e.after = e.before)
            /\ e.err = ErrNone => occ = 1

----------------------------------------------------------------------------
(* SpecSize: readLocalFile and createOrOverwriteFile around the size limit *)

MaxSlack == 1        \* bytes below and above maxFileSize that are tried

\* the texts of n bytes that are tried
Texts(n) == {<<Run(n)>>, <<"x", Run(n - 1)>>}

SizeContents ==
    {<<"small">>}
        \cup UNION {Texts(maxFileSize + d) : d \in (0 - MaxSlack)..MaxSlack}

SizePath == <<"f.txt">>
NewDir == <<"new">>
NewPath == filepathJoin(NewDir, "g.txt")

InitSize ==
    /\ SessionAtRest
    /\ received = <<>>
    /\ scan = NoScan
    /\ formatter = NoFormatter
    /\ \E c \in SizeContents : files = [p \in {SizePath} |-> FileEntry(c)]
    /\ \E p \in {SizePath, NewPath}, c \in SizeContents :
          editIn = [path |-> p, content |-> c]
    /\ editLog = <<>>

\* one call of readLocalFile on the file
ReadStep ==
    /\ Len(editLog) < 2
    /\ LET r == readLocalFile(files, SizePath)
       IN editLog' = Append(editLog,
             [op |-> "readLocalFile", path |-> SizePath,
              size |-> goLen(Lookup(files, SizePath).data),
              content |-> r.content, err |-> r.err,
              fsBefore |-> files, fsAfter |-> files])
    /\ UNCHANGED <<sessionVars, files, editIn, received, scan, formatter>>

\* one call of createOrOverwriteFile with the arguments under study
WriteStep ==
    /\ Len(editLog) < 2
    /\ LET r == createOrOverwriteFile(files, editIn.path, editIn.content)
       IN /\ files' = r.fs
          /\ editLog' = Append(editLog,
                [op |-> "createOrOverwriteFile", path |-> editIn.path,
                 size |-> goLen(editIn.content),
                 content |-> editIn.content, err |-> r.err,
                 fsBefore |-> files, fsAfter |-> r.fs])
    /\ UNCHANGED <<sessionVars, editIn, received, scan, formatter>>

NextSize == ReadStep \/ WriteStep

SpecSize == InitSize /\ [][NextSize]_vars

\* C19: readLocalFile of a regular file fails exactly when the file has more
\* than 5*1024*1024 bytes and returns the content otherwise;
\* createOrOverwriteFile fails exactly when the content has more than
\* 5*1024*1024 bytes, then leaving the filesystem as it was (no directory
\* made, nothing written), and writes the content otherwise.
C19_StrictSizeCeiling ==
    \A k \in 1..Len(editLog) :
        LET call == editLog[k]
            ceiling == 5 * 1024 * 1024
        IN /\ call.op = "readLocalFile" =>
                /\ call.size > ceiling => call.err # ErrNone /\ call.content = <<>>
                /\ call.size <= ceiling =>
                      /\ call.err = ErrNone
                      /\ call.content = Lookup(call.fsBefore, call.path).data
           /\ call.op = "createOrOverwriteFile" =>
                /\ call.size > ceiling =>
                      call.err # ErrNone /\ call.fsAfter = call.fsBefore
                /\ call.size <= ceiling =>
                      /\ call.err = ErrNone
                      /\ Lookup(call.fsAfter, call.path) = FileEntry(call.content)

C19_Witness ==
    /\ Len(editLog) = 2
    /\ editLog[1].op = "readLocalFile"
    /\ editLog[1].size = 5 * 1024 * 1024
    /\ editLog[1].err = ErrNone
    /\ editLog[2].op = "createOrOverwriteFile"
    /\ editLog[2].size = 5 * 1024 * 1024 + 1
    /\ editLog[2].path = NewPath
    /\ editLog[2].err # ErrNone
    /\ Lookup(files, NewDir) = NoEntry
    /\ Lookup(files, NewPath) = NoEntry

----------------------------------------------------------------------------
(* addDirectoryToConversationHelper: the filters of the directory walk *)

excludedFiles ==
    {".DS_Store", "Thumbs.db", ".gitignore", ".python-version",
     "uv.lock", ".uv", "uvenv", ".uvenv", ".venv", "venv",
     "__pycache__", ".pytest_cache", ".coverage", ".mypy_cache",
     "node_modules", "package-lock.json", "yarn.lock", "pnpm-lock.yaml",
     ".next", ".nuxt", "dist", "build", ".cache", ".parcel-cache",
     ".turbo", ".vercel", ".output", ".contentlayer",
     "out", "coverage", ".nyc_output", "storybook-static",
     ".env", ".env.local", ".env.development", ".env.production",
     ".git", ".svn", ".hg", "CVS",
     "go.sum"}

excludedExtensions ==
    {".png", ".jpg", ".jpeg", ".gif", ".ico", ".svg", ".webp", ".avif",
     ".mp4", ".webm", ".mov", ".mp3", ".wav", ".ogg",
     ".zip", ".tar", ".gz", ".7z", ".rar",
     ".exe", ".dll", ".so", ".dylib", ".bin",
     ".pdf", ".doc", ".docx", ".xls", ".xlsx", ".ppt", ".pptx",
     ".pyc", ".pyo", ".pyd", ".egg", ".whl",
     ".uv", ".uvenv",
     ".db", ".sqlite", ".sqlite3", ".log",
     ".idea", ".vscode",
     ".map", ".chunk.js", ".chunk.css",
     ".min.js", ".min.css", ".bundle.js", ".bundle.css",
     ".cache", ".tmp", ".temp",
     ".ttf", ".otf", ".woff", ".woff2", ".eot"}

\* strings.HasPrefix(baseName, ".")
stringsHasPrefixDot(baseName) == baseName # "" /\ Head(baseName) = "."

\* filepath.Ext: the suffix of the name from its last dot, "" without a dot
filepathExt(name) ==
    LET dots == {i \in 1..Len(name) : SubSeq(name, i, i) = "."} IN
    IF dots = {} THEN ""
    ELSE SubSeq(name, CHOOSE i \in dots : \A j \in dots : j <= i, Len(name))

UpperCase == "ABCDEFGHIJKLMNOPQRSTUVWXYZ"
LowerCase == "abcdefghijklmnopqrstuvwxyz"

\* strings.ToLower
RECURSIVE stringsToLower(_)
stringsToLower(str) ==
    IF str = "" THEN ""
    ELSE LET c == Head(str)
             up == {i \in 1..Len(UpperCase) : SubSeq(UpperCase, i, i) = c}
         IN (IF up = {} THEN c
             ELSE LET i == CHOOSE k \in up : TRUE IN SubSeq(LowerCase, i, i))
                \o stringsToLower(Tail(str))

\* the atom that stands for the byte 0
NullByte == "~"

\* bytes.Contains(buffer[:n], []byte{0}) for the first size bytes of data
ContainsNullByte(data, size) ==
    \E i \in 1..Len(data) :
        /\ data[i] = NullByte
        /\ goLen(SubSeq(data, 1, i - 1)) < size

isBinaryFile(fs, filePath) ==
    LET n == normalizePath(filePath)
        e == Lookup(fs, n.path)
    IN
    IF n.err # ErrNone
    THEN [isBin |-> FALSE, err |-> <<"isBinaryFile: ">> \o n.err]
    ELSE IF e.kind \in {"none", "unreadable"}
    THEN [isBin |-> FALSE,
          err |-> <<"failed to open file ">> \o n.path \o <<": ">>
                     \o osReadFile(fs, n.path).err]
    ELSE IF e.kind # "file"
    THEN [isBin |-> FALSE,
          err |-> <<"failed to read from file ">> \o n.path
                     \o <<": is a directory">>]
    ELSE [isBin |-> ContainsNullByte(e.data, 1024), err |-> ErrNone]

maxTotalFiles == 1000

\* filepath.Rel(normalizedDirRoot, path) for a path the walk produces
filepathRel(root, path) ==
    IF path = root THEN Cwd
    ELSE IF root = Cwd THEN path
    ELSE SubSeq(path, Len(root) + 2, Len(path))

\* as Skipped, with the record left out
SkippedNotRecorded(st, text) == st

\* skippedFilePaths = append(skippedFilePaths, text)
Skipped(st, text) == [st EXCEPT !.skippedFilePaths = Append(@, text)]

\* as quotaReached, one file late
quotaReachedLate(st) == st.filesProcessed > maxTotalFiles

\* filesProcessed >= maxTotalFiles
quotaReached(st) == st.filesProcessed >= maxTotalFiles

\* as walkDirFuncDir, with the walk going on into a directory it records
walkDirFuncDirNoPrune(st, path) ==
    LET baseName == filepathBase(path) IN
    IF stringsHasPrefixDot(baseName) /\ baseName # "." /\ baseName # ".."
    THEN [ret |-> "nil", st |-> Skipped(st, path \o <<" (hidden directory)">>)]
    ELSE IF baseName \in excludedFiles
    THEN [ret |-> "nil",
          st |-> Skipped(st, path \o <<" (excluded directory name)">>)]
    ELSE [ret |-> "nil", st |-> st]

\* the callback for a directory
walkDirFuncDir(st, path) ==
    LET baseName == filepathBase(path) IN
    IF stringsHasPrefixDot(baseName) /\ baseName # "." /\ baseName # ".."
    THEN [ret |-> "SkipDir", st |-> Skipped(st, path \o <<" (hidden directory)">>)]
    ELSE IF baseName \in excludedFiles
    THEN [ret |-> "SkipDir",
          st |-> Skipped(st, path \o <<" (excluded directory name)">>)]
    ELSE [ret |-> "nil", st |-> st]

\* as walkDirFuncFile, with every filter before the read left out
walkDirFuncFileUnfiltered(fs, path) ==
    LET e == Lookup(fs, path)
        r == readLocalFile(fs, path)
    IN IF r.err # ErrNone
       THEN [skip |-> <<" (read error: ">> \o r.err \o <<")">>, content |-> <<>>,
             probed |-> TRUE, read |-> TRUE]
       ELSE [skip |-> <<>>, content |-> r.content, probed |-> TRUE, read |-> TRUE]

\* the callback for an entry that is not a directory: the skip text, or ""
\* for a file that is admitted with its content
walkDirFuncFile(fs, path) ==
    LET baseName == filepathBase(path)
        ext == filepathExt(baseName)
        e == Lookup(fs, path)
        size == goLen(e.data)
        bin == isBinaryFile(fs, path)
        r == readLocalFile(fs, path)
        No(text, probed, read) ==
            [skip |-> text, content |-> <<>>, probed |-> probed, read |-> read]
    IN
    IF stringsHasPrefixDot(baseName)
    THEN No(<<" (hidden file)">>, FALSE, FALSE)
    ELSE IF baseName \in excludedFiles
    THEN No(<<" (excluded file name)">>, FALSE, FALSE)
    ELSE IF stringsToLower(ext) \in excludedExtensions
    THEN No(<<" (excluded extension)">>, FALSE, FALSE)
    ELSE IF e.kind = "none"
    THEN No(<<" (stat error: lstat ">> \o path
               \o <<": no such file or directory)">>, FALSE, FALSE)
    ELSE IF size > maxFileSize
    THEN No(<<" (exceeds size limit ", ToString(size), " > ",
              ToString(maxFileSize), ")">>, FALSE, FALSE)
    ELSE IF bin.err # ErrNone
    THEN No(<<" (binary check error: ">> \o bin.err \o <<")">>, TRUE, FALSE)
    ELSE IF bin.isBin
    THEN No(<<" (binary file)">>, TRUE, FALSE)
    ELSE IF r.err # ErrNone
    THEN No(<<" (read error: ">> \o r.err \o <<")">>, TRUE, TRUE)
    ELSE [skip |-> <<>>, content |-> r.content, probed |-> TRUE, read |-> TRUE]

\* as walkDirFunc, with the root directory exempt from the exclusion policy
walkDirFuncRootExempt(fs, st, root, path, isDir, errWalk) ==
    LET f == walkDirFuncFile(fs, path)
        at == [st EXCEPT !.visited = @ \cup {path}]
        seen == [at EXCEPT
                   !.probedAt = IF f.probed THEN st.filesProcessed ELSE @,
                   !.readAt = IF f.read THEN st.filesProcessed ELSE @]
    IN
    IF errWalk # ErrNone
    THEN [ret |-> "nil",
          st |-> Skipped(at, path \o <<" (walk error: ">> \o errWalk \o <<")">>)]
    ELSE IF quotaReached(st)
    THEN [ret |-> "SkipDir", st |-> at]
    ELSE IF isDir /\ path = root
    THEN [ret |-> "nil", st |-> at]
    ELSE IF isDir
    THEN walkDirFuncDir(at, path)
    ELSE IF f.skip # <<>>
    THEN [ret |-> "nil", st |-> Skipped(seen, path \o f.skip)]
    ELSE [ret |-> "nil",
          st |-> [seen EXCEPT
                    !.addedFileContents =
                        [k \in DOMAIN @ \cup {filepathRel(root, path)} |->
                            IF k = filepathRel(root, path) THEN f.content ELSE @[k]],
                    !.filesProcessed = @ + 1]]

\* the callback given to filepath.WalkDir: what it returns and the results
\* afterwards; visited notes the paths the callback was called for, probedAt
\* and readAt note filesProcessed at the latest call of isBinaryFile and of
\* readLocalFile
walkDirFunc(fs, st, root, path, isDir, errWalk) ==
    LET f == walkDirFuncFile(fs, path)
        at == [st EXCEPT !.visited = @ \cup {path}]
        seen == [at EXCEPT
                   !.probedAt = IF f.probed THEN st.filesProcessed ELSE @,
                   !.readAt = IF f.read THEN st.filesProcessed ELSE @]
    IN
    IF errWalk # ErrNone
    THEN [ret |-> "nil",
          st |-> Skipped(at, path \o <<" (walk error: ">> \o errWalk \o <<")">>)]
    ELSE IF quotaReached(st)
    THEN [ret |-> "SkipDir", st |-> at]
    ELSE IF isDir
    THEN walkDirFuncDir(at, path)
    ELSE IF f.skip # <<>>
    THEN [ret |-> "nil", st |-> Skipped(seen, path \o f.skip)]
    ELSE [ret |-> "nil",
          st |-> [seen EXCEPT
                    !.addedFileContents =
                        [k \in DOMAIN @ \cup {filepathRel(root, path)} |->
                            IF k = filepathRel(root, path) THEN f.content ELSE @[k]],
                    !.filesProcessed = @ + 1]]

\* os.ReadDir: the names of the directory in byte order
osReadDir(fs, path) ==
    IF Lookup(fs, path).kind = "dir"
    THEN [names |-> Lookup(fs, path).data, err |-> ErrNone]
    ELSE [names |-> <<>>, err |-> <<"open ">> \o path \o <<": permission denied">>]

RECURSIVE walkDir(_, _, _, _)
RECURSIVE walkDirLoop(_, _, _, _, _, _, _)

\* walkDir(path, d, walkDirFn) of path/filepath: the callback; for a
\* directory that is not skipped os.ReadDir, a second call of the callback
\* when that fails, and the loop over the names read
walkDir(fs, st, root, path) ==
    LET isDir == IsDir(Lookup(fs, path))
        cb == walkDirFunc(fs, st, root, path, isDir, ErrNone)
        rd == osReadDir(fs, path)
        cb2 == walkDirFunc(fs, cb.st, root, path, isDir, rd.err)
        read == IF rd.err # ErrNone THEN cb2.st ELSE cb.st
        loop == walkDirLoop(fs, read, root, path, rd.names, 1, Len(rd.names))
    IN IF ~isDir THEN cb
       ELSE IF cb.ret = "SkipDir" THEN [ret |-> "nil", st |-> cb.st]
       ELSE IF rd.err # ErrNone /\ cb2.ret = "SkipDir"
       THEN [ret |-> "nil", st |-> cb2.st]
       ELSE [ret |-> "nil", st |-> loop.st]

\* the loop of walkDir over names[lo..hi] of the directory dir, taken in
\* halves: SkipDir from an entry breaks out of the loop
walkDirLoop(fs, st, root, dir, names, lo, hi) ==
    IF lo > hi THEN [ret |-> "nil", st |-> st]
    ELSE IF lo = hi THEN walkDir(fs, st, root, filepathJoin(dir, names[lo]))
    ELSE LET mid == (lo + hi) \div 2
             first == walkDirLoop(fs, st, root, dir, names, lo, mid)
         IN IF first.ret = "SkipDir" THEN first
            ELSE walkDirLoop(fs, first.st, root, dir, names, mid + 1, hi)

\* filepath.WalkDir(root, fn): a root that os.Lstat does not find goes to the
\* callback as an error; SkipDir from the walk is no error
filepathWalkDir(fs, st, root) ==
    LET noRoot == <<"lstat ">> \o root \o <<": no such file or directory">>
    IN IF Lookup(fs, root).kind = "none"
       THEN walkDirFunc(fs, st, root, root, FALSE, noRoot).st
       ELSE walkDir(fs, st, root, root).st

\* addDirectoryToConversationHelper(directoryPath) on the filesystem fs
addDirectoryToConversationHelper(fs, directoryPath) ==
    LET n == normalizePath(directoryPath)
        st == [addedFileContents |-> <<>>, skippedFilePaths |-> <<>>,
               filesProcessed |-> 0, visited |-> {}, probedAt |-> -1,
               readAt |-> -1, err |-> ErrNone]
    IN IF n.err # ErrNone
       THEN [st EXCEPT !.err = <<"addDirectoryToConversationHelper: ">> \o n.err]
       ELSE filepathWalkDir(fs, st, n.path)

----------------------------------------------------------------------------
(* SpecScan: addDirectoryToConversationHelper on small and large trees *)

\* the helper runs on the directory path it was called with and returns
AddDirectory ==
    /\ scan.phase = "called"
    /\ scan' = [phase |-> "done", root |-> scan.root,
                result |-> addDirectoryToConversationHelper(files, scan.root)]
    /\ UNCHANGED <<sessionVars, files, editIn, editLog, received, formatter>>

NextScan == AddDirectory

MaxEntries == 3      \* names in the root directory of a small tree
MaxExtra == 1        \* files below and above maxTotalFiles in a large tree

TextFile == FileEntry(<<"text">>)
TenBytes == FileEntry(<<"0123456789">>)

\* what a small tree may have in its root directory, in byte order of the
\* names; below is what a directory holds, in byte order too
Menu ==
    <<[name |-> ".git", entry |-> DirEntry,
       below |-> <<[name |-> "config", entry |-> TextFile]>>],
      [name |-> ".secret", entry |-> TextFile, below |-> <<>>],
      [name |-> "app.min.js", entry |-> TextFile, below |-> <<>>],
      [name |-> "big.txt", entry |-> FileEntry(<<Run(maxFileSize + 1)>>),
       below |-> <<>>],
      [name |-> "bin.dat", entry |-> FileEntry(<<Run(1023), NullByte>>),
       below |-> <<>>],
      [name |-> "go.sum", entry |-> TextFile, below |-> <<>>],
      [name |-> "late.dat", entry |-> FileEntry(<<Run(1024), NullByte>>),
       below |-> <<>>],
      [name |-> "locked.txt", entry |-> UnreadableFile(<<"text">>), below |-> <<>>],
      [name |-> "node_modules", entry |-> DirEntry,
       below |-> <<[name |-> "x.js", entry |-> TextFile]>>],
      [name |-> "notes.txt", entry |-> TenBytes, below |-> <<>>],
      [name |-> "pic.png", entry |-> TextFile, below |-> <<>>],
      [name |-> "src", entry |-> DirEntry,
       below |-> <<[name |-> ".env", entry |-> TextFile],
                   [name |-> "IMG.PNG", entry |-> TextFile],
                   [name |-> "main.go", entry |-> TextFile]>>],
      [name |-> "vault", entry |-> LockedDir(<<>>),
       below |-> <<[name |-> "key.txt", entry |-> TextFile]>>]>>

MenuNames == {Menu[i].name : i \in 1..Len(Menu)}

\* the names of a sequence of menu items
Names(items) == [i \in 1..Len(items) |-> items[i].name]

\* the entry of a menu item: a directory lists what it holds
EntryOf(item) ==
    IF IsDir(item.entry) THEN [item.entry EXCEPT !.data = Names(item.below)]
    ELSE item.entry

\* the tree whose root directory holds the chosen items of the menu
Tree(root, chosen) ==
    LET In(item) == item.name \in chosen
        top == SelectSeq(Menu, In)
        At(i) == filepathJoin(root, top[i].name)
        paths == {root} \cup {At(i) : i \in 1..Len(top)}
                    \cup UNION {{filepathJoin(At(i), top[i].below[j].name) :
                                    j \in 1..Len(top[i].below)} : i \in 1..Len(top)}
    IN [p \in paths |->
           IF p = root THEN Dir(Names(top))
           ELSE IF \E i \in 1..Len(top) : p = At(i)
           THEN EntryOf(top[CHOOSE i \in 1..Len(top) : p = At(i)])
           ELSE LET i == CHOOSE k \in 1..Len(top) : filepathDir(p) = At(k)
                    j == CHOOSE k \in 1..Len(top[i].below) :
                            top[i].below[k].name = filepathBase(p)
                IN top[i].below[j].entry]

RootDir == <<"dir">>
BigRoot == <<"big">>

\* a large tree: directory a with n text files, then b.txt, then directory
\* c with d.txt, then directory node_modules with x.js, then z.txt
BigTree(n) ==
    LET a == filepathJoin(BigRoot, "a")
        c == filepathJoin(BigRoot, "c")
        m == filepathJoin(BigRoot, "node_modules")
        f == [i \in 1..n |-> "f" \o ToString(1000 + i) \o ".txt"]
    IN [p \in {BigRoot, a, filepathJoin(BigRoot, "b.txt"), c,
                filepathJoin(c, "d.txt"), m, filepathJoin(m, "x.js"),
                filepathJoin(BigRoot, "z.txt")}
                  \cup {filepathJoin(a, f[i]) : i \in 1..n} |->
           IF p = BigRoot THEN Dir(<<"a", "b.txt", "c", "node_modules", "z.txt">>)
           ELSE IF p = a THEN Dir(f)
           ELSE IF p = c THEN Dir(<<"d.txt">>)
           ELSE IF p = m THEN Dir(<<"x.js">>)
           ELSE TextFile]

\* roots whose own name is hidden, excluded, or the parent directory
SpecialRoots ==
    {<<".config">>, <<"node_modules">>, <<"dir", Sep, ".git">>, <<"..">>}

\* the directory paths given to the helper and the small trees they meet
ScanInputs ==
    {[root |-> RootDir, fs |-> Tree(RootDir, chosen)] :
        chosen \in {c \in SUBSET MenuNames : Cardinality(c) <= MaxEntries}}
    \cup {[root |-> <<"nowhere">>, fs |-> Tree(RootDir, {"notes.txt"})],
          [root |-> <<"error">>, fs |-> Tree(<<"error">>, {"notes.txt"})],
          [root |-> Cwd, fs |-> Tree(Cwd, {".secret", "notes.txt", "src"})]}
    \cup {[root |-> root, fs |-> Tree(root, chosen)] :
             root \in SpecialRoots, chosen \in {{}, {"notes.txt", "src"}}}

\* every directory lists, in byte order, exactly the entries it holds
WellFormed(fs, root) ==
    \A p \in DOMAIN fs :
        /\ p # root =>
              /\ filepathDir(p) \in DOMAIN fs
              /\ IsDir(fs[filepathDir(p)])
        /\ IsDir(fs[p]) =>
              LET names == fs[p].data IN
              /\ {filepathJoin(p, names[i]) : i \in 1..Len(names)}
                    = {q \in DOMAIN fs : q # root /\ filepathDir(q) = p}
              /\ \A i \in 1..(Len(names) - 1) : StrLess(names[i], names[i + 1])

\* the helper is called with directoryPath on the filesystem fs
ScanCalled(directoryPath, fs) ==
    /\ WellFormed(fs, IF directoryPath \in DOMAIN fs THEN directoryPath ELSE RootDir)
          = TRUE
    /\ files = fs
    /\ scan = [phase |-> "called", root |-> directoryPath]

InitScan ==
    /\ SessionAtRest
    /\ formatter = NoFormatter
    /\ editIn = NoEdit
    /\ editLog = <<>>
    /\ received = <<>>
    /\ \/ \E in \in ScanInputs : ScanCalled(in.root, in.fs)
       \/ \E d \in (0 - MaxExtra)..MaxExtra :
             ScanCalled(BigRoot, BigTree(maxTotalFiles + d))

SpecScan == InitScan /\ [][NextScan]_vars

\* the path of the entry admitted under the key rel
AdmittedPath(rel) == IF scan.root = Cwd THEN rel ELSE scan.root \o <<Sep>> \o rel

\* path names an entry below the root
BelowRoot(path) ==
    IF scan.root = Cwd THEN path # Cwd
    ELSE HasPrefixAt(path, scan.root \o <<Sep>>, 0) /\ Len(path) > Len(scan.root) + 1

\* a Go string held in one atom ends with suffix
EndsWith(str, suffix) ==
    /\ Len(suffix) <= Len(str)
    /\ SubSeq(str, Len(str) - Len(suffix) + 1, Len(str)) = suffix

\* the name is hidden or in the excluded-name set
HiddenOrExcluded(name) == Head(name) = "." \/ name \in excludedFiles

\* a skip record for path: the path followed by a reason in parentheses
Recorded(path) ==
    \E i \in 1..Len(scan.result.skippedFilePaths) :
        LET rec == scan.result.skippedFilePaths[i] IN
        /\ Len(rec) > Len(path)
        /\ SubSeq(rec, 1, Len(path)) = path
        /\ Head(rec[Len(path) + 1]) = " "

\* the directories from the root down to the one that holds path
Ancestors(path) ==
    {SubSeq(path, 1, j - 1) : j \in {k \in 2..Len(path) : path[k] = Sep}}

\* C13 as stated: every admitted entry is keyed by a relative path that
\* names a file inside the root; that file has at most 5 MiB, no null byte
\* in its first 1024 bytes, a name that is not hidden, not in the
\* excluded-name set and not ending (case-insensitively) with an excluded
\* extension; and no directory between the root and the file is hidden or
\* excluded.
C13_AdmittedEntries ==
    scan.phase = "done" =>
        \A rel \in DOMAIN scan.result.addedFileContents :
            LET path == AdmittedPath(rel)
                name == filepathBase(path)
                entry == Lookup(files, path)
            IN /\ rel # <<>> /\ rel[1] # Sep /\ \A i \in 1..Len(rel) : rel[i] # ".."
               /\ entry.kind = "file"
               /\ BelowRoot(path)
               /\ goLen(entry.data) <= 5 * 1024 * 1024
               /\ ~ContainsNullByte(entry.data, 1024)
               /\ ~HiddenOrExcluded(name)
               /\ \A ext \in excludedExtensions : ~EndsWith(stringsToLower(name), ext)
               /\ \A j \in 1..(Len(rel) - 1) :
                     rel[j] # Sep => ~HiddenOrExcluded(rel[j])

\* C14 as stated: when the helper has returned, every file below the root
\* that is not inside a directory with a skip record is admitted or has a
\* skip record itself, whatever the reason it was passed over (the file
\* quota included).
C14_ScanCoverage ==
    (scan.phase = "done" /\ scan.result.err = ErrNone) =>
        \A path \in DOMAIN files :
            (/\ BelowRoot(path)
             /\ ~IsDir(files[path])
             /\ \A dir \in Ancestors(path) : ~Recorded(dir))
                => \/ \E rel \in DOMAIN scan.result.addedFileContents :
                         AdmittedPath(rel) = path
                   \/ Recorded(path)

\* the names of a path, without the separators
PathNames(path) == LET IsName(a) == a # Sep IN SelectSeq(path, IsName)

\* the walk reaches path p before path q: a directory before what it holds,
\* the names of a directory in byte order
WalkBefore(p, q) ==
    LET a == PathNames(p)
        b == PathNames(q)
        shorter == IF Len(a) < Len(b) THEN Len(a) ELSE Len(b)
    IN \/ Len(a) < Len(b) /\ SubSeq(b, 1, Len(a)) = a
       \/ \E i \in 1..shorter :
             /\ SubSeq(a, 1, i - 1) = SubSeq(b, 1, i - 1)
             /\ StrLess(a[i], b[i])

\* C14, amended: when the helper has returned, every file below the root
\* that is not inside a directory with a skip record is admitted or has a
\* skip record with its path and a reason, unless 1000 files were admitted
\* and the walk reaches the file after every admitted one: such a file is
\* pruned without a record.
C14_ScanCoverageUpToQuota ==
    (scan.phase = "done" /\ scan.result.err = ErrNone) =>
        \A path \in DOMAIN files :
            (/\ BelowRoot(path)
             /\ ~IsDir(files[path])
             /\ \A dir \in Ancestors(path) : ~Recorded(dir))
                => \/ \E rel \in DOMAIN scan.result.addedFileContents :
                         AdmittedPath(rel) = path
                   \/ Recorded(path)
                   \/ /\ scan.result.filesProcessed = 1000
                      /\ \A rel \in DOMAIN scan.result.addedFileContents :
                            WalkBefore(AdmittedPath(rel), path)

\* a scan that met the quota and left b.txt out without a record
C14_Witness ==
    /\ scan.phase = "done"
    /\ scan.root = BigRoot
    /\ scan.result.filesProcessed = 1000
    /\ filepathJoin(BigRoot, "b.txt") \in DOMAIN files
    /\ <<"b.txt">> \notin DOMAIN scan.result.addedFileContents
    /\ ~Recorded(filepathJoin(BigRoot, "b.txt"))
    /\ ~Recorded(BigRoot)

\* C15 as stated: when the helper has returned and the root names nothing
\* that can be opened, the error is non-nil; a skip record for a walk,
\* binary-check or read failure of an entry comes with a nil error.
C15_RootFailureIsHardError ==
    scan.phase = "done" =>
        /\ Lookup(files, scan.root).kind = "none" => scan.result.err # ErrNone
        /\ (\E path \in DOMAIN files : BelowRoot(path) /\ Recorded(path))
              => scan.result.err = ErrNone

\* C16: for every tree the helper is called on the walk ends with a result
\* (the result is also computed where the call is still pending); it admits
\* at most 1000 files, and no call of isBinaryFile or readLocalFile is made
\* once 1000 files are admitted (the latest of either was made with fewer
\* than 1000 admitted).
C16_FileQuota ==
    LET result == IF scan.phase = "done" THEN scan.result
                  ELSE addDirectoryToConversationHelper(files, scan.root)
    IN /\ result.filesProcessed \in 0..1000
       /\ Cardinality(DOMAIN result.addedFileContents) <= 1000
       /\ result.probedAt < 1000
       /\ result.readAt < 1000

\* a tree of more than 1000 admissible files in one directory was scanned:
\* 1000 are admitted, the last probe and read were those of the 1000th
C16_Witness ==
    /\ scan.phase = "done"
    /\ Len(Lookup(files, filepathJoin(BigRoot, "a")).data) > 1000
    /\ scan.result.filesProcessed = 1000
    /\ Cardinality(DOMAIN scan.result.addedFileContents) = 1000
    /\ scan.result.probedAt = 999
    /\ scan.result.readAt = 999

\* C17: scanning a directory that holds exactly a hidden file .secret, a
\* text file of 10 bytes notes.txt and a file pic.png returns notes.txt
\* with its content under its relative path as the only admitted file, and
\* exactly two skip records, one for .secret and one for pic.png.
C17_AddPathEndToEnd ==
    (/\ scan.phase = "done"
     /\ Lookup(files, scan.root).kind = "dir"
     /\ Lookup(files, scan.root).data = <<".secret", "notes.txt", "pic.png">>
     /\ goLen(Lookup(files, filepathJoin(scan.root, "notes.txt")).data) = 10)
        => /\ scan.result.err = ErrNone
           /\ DOMAIN scan.result.addedFileContents = {<<"notes.txt">>}
           /\ scan.result.addedFileContents[<<"notes.txt">>]
                 = Lookup(files, filepathJoin(scan.root, "notes.txt")).data
           /\ Len(scan.result.skippedFilePaths) = 2
           /\ Recorded(filepathJoin(scan.root, ".secret"))
           /\ Recorded(filepathJoin(scan.root, "pic.png"))

\* that directory was scanned
C17_Witness ==
    /\ scan.phase = "done"
    /\ scan.root = RootDir
    /\ Lookup(files, RootDir).data = <<".secret", "notes.txt", "pic.png">>
    /\ goLen(Lookup(files, filepathJoin(RootDir, "notes.txt")).data) = 10
    /\ scan.result.filesProcessed = 1
    /\ Len(scan.result.skippedFilePaths) = 2

\* the number of skip records for path
RecordCount(path) ==
    Cardinality({i \in 1..Len(scan.result.skippedFilePaths) :
                    LET rec == scan.result.skippedFilePaths[i] IN
                    /\ Len(rec) > Len(path)
                    /\ SubSeq(rec, 1, Len(path)) = path
                    /\ Head(rec[Len(path) + 1]) = " "})

\* path names an entry inside the subtree of dir
Inside(path, dir) == HasPrefixAt(path, dir \o <<Sep>>, 0) /\ Len(path) > Len(dir) + 1

\* the entry at path is admitted
Admitted(path) ==
    \E rel \in DOMAIN scan.result.addedFileContents : AdmittedPath(rel) = path

\* the hidden or excluded directories below the root that the walk met
PrunedDirs ==
    {dir \in scan.result.visited :
        /\ BelowRoot(dir)
        /\ IsDir(Lookup(files, dir))
        /\ HiddenOrExcluded(filepathBase(dir))}

\* the entries of the directory that holds dir which the walk takes after dir
SiblingsAfter(dir) ==
    {q \in DOMAIN files :
        /\ q # scan.root
        /\ filepathDir(q) = filepathDir(dir)
        /\ StrLess(filepathBase(dir), filepathBase(q))}

\* nothing inside the subtree of dir is visited, admitted or skip-recorded
SubtreeUntouched(dir) ==
    \A path \in DOMAIN files :
        Inside(path, dir) =>
            /\ path \notin scan.result.visited
            /\ ~Admitted(path)
            /\ ~Recorded(path)

\* 1000 files were admitted before the walk reached path
QuotaBefore(path) ==
    /\ scan.result.filesProcessed = maxTotalFiles
    /\ \A rel \in DOMAIN scan.result.addedFileContents :
          WalkBefore(AdmittedPath(rel), path)

\* C27 as stated: for every hidden or excluded directory below the root that
\* the walk meets, exactly one skip record is written for it, nothing inside
\* its subtree is visited, admitted or skip-recorded, and the entries of
\* its directory after it are still visited.
C27_SubtreePruning ==
    (scan.phase = "done" /\ scan.result.err = ErrNone) =>
        \A dir \in PrunedDirs :
            /\ RecordCount(dir) = 1
            /\ SubtreeUntouched(dir)
            /\ \A q \in SiblingsAfter(dir) : q \in scan.result.visited

\* C27, amended: for every hidden or excluded directory below the root that
\* the walk meets, nothing inside its subtree is visited, admitted or
\* skip-recorded; exactly one skip record is written for it when fewer
\* than 1000 files were admitted before it and none otherwise; an entry of
\* its directory after it is still visited when fewer than 1000 files were
\* admitted before that entry.
C27_SubtreePruningBelowQuota ==
    (scan.phase = "done" /\ scan.result.err = ErrNone) =>
        \A dir \in PrunedDirs :
            /\ SubtreeUntouched(dir)
            /\ RecordCount(dir) = IF QuotaBefore(dir) THEN 0 ELSE 1
            /\ \A q \in SiblingsAfter(dir) :
                  ~QuotaBefore(q) => q \in scan.result.visited

\* node_modules was met in the root directory and pruned with one record,
\* and notes.txt after it was admitted
C27_Witness ==
    /\ scan.phase = "done"
    /\ scan.root = RootDir
    /\ filepathJoin(RootDir, "node_modules") \in PrunedDirs
    /\ RecordCount(filepathJoin(RootDir, "node_modules")) = 1
    /\ filepathJoin(filepathJoin(RootDir, "node_modules"), "x.js") \in DOMAIN files
    /\ SubtreeUntouched(filepathJoin(RootDir, "node_modules"))
    /\ Admitted(filepathJoin(RootDir, "notes.txt"))

\* the name of the root begins with "." (other than "." and "..") or is in
\* the excluded-name set
RootIsExcluded ==
    LET baseName == filepathBase(scan.root) IN
    \/ Head(baseName) = "." /\ baseName \notin {".", ".."}
    \/ baseName \in excludedFiles

\* C32: when the root is a directory whose own name is hidden or in the
\* excluded-name set, the scan admits no file, returns exactly one skip
\* record, which is for the root, and no error, whatever the root holds.
C32_RootIsSubjectToExclusion ==
    (/\ scan.phase = "done"
     /\ IsDir(Lookup(files, scan.root))
     /\ RootIsExcluded)
        => /\ DOMAIN scan.result.addedFileContents = {}
           /\ scan.result.filesProcessed = 0
           /\ Len(scan.result.skippedFilePaths) = 1
           /\ RecordCount(scan.root) = 1
           /\ scan.result.visited = {scan.root}
           /\ scan.result.err = ErrNone

\* the root node_modules holds notes.txt, which the scan would admit
\* elsewhere, and was scanned
C32_Witness ==
    /\ scan.phase = "done"
    /\ scan.root = <<"node_modules">>
    /\ IsDir(Lookup(files, scan.root))
    /\ Lookup(files, filepathJoin(scan.root, "notes.txt")).kind = "file"
    /\ Len(scan.result.skippedFilePaths) = 1
    /\ DOMAIN scan.result.addedFileContents = {}

----------------------------------------------------------------------------
(* SpecAdd: the /add command of the executor on small trees *)

\* the orders in which a range statement may take the keys of a map
Orders(keys) ==
    {order \in [1..Cardinality(keys) -> keys] :
        \A i, j \in 1..Cardinality(keys) : order[i] = order[j] => i = j}

\* the loop of /add over addedContents, the keys taken in the given order
foldAdded(h, pathToAdd, addedContents, order) ==
    h \o [k \in 1..Len(order) |->
            ContextMessage(pathToAdd, [relPath |-> order[k],
                                       content |-> addedContents[order[k]]])]

\* executor, /add <path>: the helper runs, and without an error every
\* admitted file is appended as a system message
AddPath ==
    /\ pc = "idle"
    /\ scan.phase = "called"
    /\ \E result \in {addDirectoryToConversationHelper(files, scan.root)} :
          /\ scan' = [phase |-> "added", root |-> scan.root, result |-> result,
                      histBefore |-> ConversationHistory]
          /\ IF result.err # ErrNone
             THEN ConversationHistory' = ConversationHistory
             ELSE \E order \in Orders(DOMAIN result.addedFileContents) :
                     ConversationHistory' =
                        foldAdded(ConversationHistory, scan.root,
                                  result.addedFileContents, order)
    /\ inputs' = inputs + 1
    /\ turn' = NoTurn
    /\ UNCHANGED <<pc, stream, fullResponse, toolCalls, finalNaturalResponse,
                   files, streams, editIn, editLog, received, formatter>>

NextAdd == AddPath

InitAdd ==
    /\ SessionAtRest
    /\ formatter = NoFormatter
    /\ editIn = NoEdit
    /\ editLog = <<>>
    /\ received = <<>>
    /\ \E in \in ScanInputs : ScanCalled(in.root, in.fs)

SpecAdd == InitAdd /\ [][NextAdd]_vars

\* the messages /add appended
AddedMessages ==
    SubSeq(ConversationHistory, Len(scan.histBefore) + 1, Len(ConversationHistory))

\* the message for the file admitted under rel was appended as the k-th
MessageAt(rel, k) ==
    /\ k \in 1..Len(AddedMessages)
    /\ AddedMessages[k]
          = Message(RoleSystem,
                    <<"Content of file '">> \o AdmittedPath(rel) \o <<"':\n\n">>
                       \o scan.result.addedFileContents[rel])

\* C28: /add appends, for each admitted file, exactly one system message
\* with the file's full path and its content, in the order in which the
\* scan reached the files; when the scan returns an error the history is
\* left as it was.
C28_AddFoldsInTraversalOrder ==
    scan.phase = "added" =>
        IF scan.result.err # ErrNone
        THEN ConversationHistory = scan.histBefore
        ELSE /\ SubSeq(ConversationHistory, 1, Len(scan.histBefore))
                   = scan.histBefore
             /\ Len(AddedMessages) = Cardinality(DOMAIN scan.result.addedFileContents)
             /\ \A rel \in DOMAIN scan.result.addedFileContents :
                   \E k \in 1..Len(AddedMessages) : MessageAt(rel, k)
             /\ \A a, b \in DOMAIN scan.result.addedFileContents :
                   WalkBefore(AdmittedPath(a), AdmittedPath(b)) =>
                       \A i, j \in 1..Len(AddedMessages) :
                           (MessageAt(a, i) /\ MessageAt(b, j)) => i < j

----------------------------------------------------------------------------
(* SpecMerge: the tool-call merge over a stream of deltas *)

MaxIndex == 1

\* the text a piece of the k-th delta carries: empty, or text naming its
\* field and position
Piece(present, tag, k) == IF present THEN <<tag \o ToString(k)>> ELSE <<>>

\* which of id, name and arguments a delta carries: nothing, one field, id
\* and name (the opening delta of a call), or all three
Shapes ==
    {<<FALSE, FALSE, FALSE>>, <<TRUE, FALSE, FALSE>>, <<FALSE, TRUE, FALSE>>,
     <<FALSE, FALSE, TRUE>>, <<TRUE, TRUE, FALSE>>, <<TRUE, TRUE, TRUE>>}

\* the deltas the stream may deliver as its k-th
DeltaInputs(k) ==
    {Delta(NilIndex, <<"i">>, <<"function">>, <<"n">>, <<"x">>)} \cup
    {Delta(idx, Piece(sh[1], "i", k), IF sh[2] THEN <<"function">> ELSE <<>>,
           Piece(sh[2], "n", k), Piece(sh[3], "x", k)) :
        idx \in 0..MaxIndex, sh \in Shapes}

InitMerge ==
    /\ ConversationHistory = SeededHistory
    /\ pc = "merging"
    /\ stream = <<>>
    /\ fullResponse = <<>>
    /\ toolCalls = <<>>
    /\ finalNaturalResponse = <<>>
    /\ inputs = 0
    /\ turn = NoTurn
    /\ streams = NoStreams
    /\ scan = NoScan
    /\ formatter = NoFormatter
    /\ files = <<>>
    /\ editIn = NoEdit
    /\ editLog = <<>>
    /\ received = <<>>

\* a fragment with one tool-call delta arrives
MergeRecv ==
    /\ pc = "merging"
    /\ Len(received) < MaxDeltas
    /\ \E d \in DeltaInputs(Len(received) + 1) :
          /\ toolCalls' = MergeDeltas(toolCalls, <<d>>)
          /\ received' = Append(received, d)
    /\ UNCHANGED <<ConversationHistory, pc, stream, fullResponse,
                   finalNaturalResponse, inputs, turn, files, editIn, editLog,
                   streams, scan, formatter>>

\* the stream ends
MergeEOF ==
    /\ pc = "merging"
    /\ pc' = "merged"
    /\ UNCHANGED <<ConversationHistory, stream, fullResponse, toolCalls,
                   finalNaturalResponse, inputs, turn, files, editIn, editLog,
                   received, streams, scan, formatter>>

NextMerge == MergeRecv \/ MergeEOF

SpecMerge == InitMerge /\ [][NextMerge]_vars

\* the deltas of ds that carry index idx, in arrival order
RECURSIVE ForIndex(_, _)
ForIndex(ds, idx) ==
    IF ds = <<>> THEN <<>>
    ELSE (IF Head(ds).Index = idx THEN <<Head(ds)>> ELSE <<>>)
            \o ForIndex(Tail(ds), idx)

RECURSIVE ConcatField(_, _)
ConcatField(ds, field) ==
    IF ds = <<>> THEN <<>> ELSE Head(ds)[field] \o ConcatField(Tail(ds), field)

\* the same stream unfragmented: one delta per index that occurs, carrying
\* the whole id, name and arguments text of that index
RECURSIVE Unfragmented(_, _)
Unfragmented(ds, idx) ==
    IF idx > MaxIndex THEN <<>>
    ELSE LET mine == ForIndex(ds, idx) IN
         (IF mine = <<>> THEN <<>>
          ELSE <<Delta(idx, ConcatField(mine, "ID"), <<"function">>,
                       ConcatField(mine, "Name"), ConcatField(mine, "Arguments"))>>)
            \o Unfragmented(ds, idx + 1)

WholeCalls == MergeDeltas(<<>>, Unfragmented(received, 0))

\* the number of non-empty name pieces received for index idx
NamePieces(idx) ==
    Cardinality({k \in 1..Len(received) :
                    received[k].Index = idx /\ received[k].Name # <<>>})

\* C1 as stated: after the stream ends the merged id, name and arguments of
\* every index are those of the unfragmented stream, however the id, name
\* and arguments text was split across fragments.
C1_FragmentationInvariant ==
    pc = "merged" =>
        /\ Len(toolCalls) = Len(WholeCalls)
        /\ \A k \in 1..Len(toolCalls) :
              /\ toolCalls[k].ID = WholeCalls[k].ID
              /\ toolCalls[k].Name = WholeCalls[k].Name
              /\ toolCalls[k].Arguments = WholeCalls[k].Arguments

\* C1 amended: after the stream ends the merged id and arguments of every
\* index are those of the unfragmented stream, however the id and arguments
\* text was split; the merged name is that of the unfragmented stream when
\* the name arrived in a single piece.
C1_FragmentationInvariantIdArgs ==
    pc = "merged" =>
        /\ Len(toolCalls) = Len(WholeCalls)
        /\ \A k \in 1..Len(toolCalls) :
              /\ toolCalls[k].ID = WholeCalls[k].ID
              /\ toolCalls[k].Arguments = WholeCalls[k].Arguments
              /\ NamePieces(k - 1) <= 1 => toolCalls[k].Name = WholeCalls[k].Name

C1_Witness ==
    /\ pc = "merged"
    /\ Len(toolCalls) = 2
    /\ Len(ForIndex(received, 1)) >= 2
    /\ Len(toolCalls[2].ID) = 2
    /\ Len(toolCalls[2].Arguments) = 2
    /\ NamePieces(1) = 1
    /\ toolCalls[2].Name # <<>>

\* the highest index a received delta carries, -1 when none carries one
HighestIndex ==
    IF \A k \in 1..Len(received) : received[k].Index = NilIndex THEN -1
    ELSE CHOOSE i \in 0..MaxIndex + 1 :
            /\ \E k \in 1..Len(received) : received[k].Index = i
            /\ \A k \in 1..Len(received) : received[k].Index <= i

\* the first non-empty name piece among the deltas ds, "" when there is none
FirstName(ds) ==
    IF \A k \in 1..Len(ds) : ds[k].Name = <<>> THEN <<>>
    ELSE ds[CHOOSE k \in 1..Len(ds) :
                /\ ds[k].Name # <<>>
                /\ \A j \in 1..(k - 1) : ds[j].Name = <<>>].Name

\* C21: when the stream ends the merged list has one record per index up to
\* the highest index seen; for every index the id is the concatenation of
\* the id pieces received for it in arrival order, the arguments are the
\* concatenation of its arguments pieces, and the name is the first
\* non-empty name piece received for it.
C21_PerFieldMerge ==
    pc = "merged" =>
        /\ Len(toolCalls) = HighestIndex + 1
        /\ \A idx \in 0..(Len(toolCalls) - 1) :
              LET mine == ForIndex(received, idx) IN
              /\ toolCalls[idx + 1].ID = ConcatField(mine, "ID")
              /\ toolCalls[idx + 1].Arguments = ConcatField(mine, "Arguments")
              /\ toolCalls[idx + 1].Name = FirstName(mine)

\* index 1 received an empty name piece and then two different names, and
\* two id pieces; index 0 received nothing
C21_Witness ==
    /\ pc = "merged"
    /\ Len(toolCalls) = 2
    /\ ForIndex(received, 0) = <<>>
    /\ Len(received) = 3
    /\ \A k \in 1..3 : received[k].Index = 1
    /\ received[1].Name = <<>>
    /\ received[2].Name = <<"n2">>
    /\ received[3].Name = <<"n3">>
    /\ toolCalls[2].Name = <<"n2">>
    /\ Len(toolCalls[2].ID) = 2

----------------------------------------------------------------------------
(* SpecTrim: trimConversationHistory applied to a history *)

OtherRoles == <<RoleUser, RoleAssistant, RoleTool>>

\* a history of n messages that starts with the system prompt and has
\* further system messages exactly at the positions of sysAt
TrimInput(n, sysAt) ==
    [i \in 1..n |->
        IF i = 1 THEN Message(RoleSystem, systemPrompt)
        ELSE IF i \in sysAt THEN Message(RoleSystem, <<"file", ToString(i)>>)
        ELSE Message(OtherRoles[(i % 3) + 1], <<"m", ToString(i)>>)]

\* the sets of at most MaxSys positions among 2..n
SysPositions(n) ==
    UNION {{{f[i] : i \in 1..k} : f \in [1..k -> 2..n]} : k \in 0..MaxSys}

InitTrim ==
    /\ pc = "idle"
    /\ stream = <<>>
    /\ fullResponse = <<>>
    /\ toolCalls = <<>>
    /\ finalNaturalResponse = <<>>
    /\ inputs = 0
    /\ turn = NoTurn
    /\ streams = NoStreams
    /\ scan = NoScan
    /\ formatter = NoFormatter
    /\ files = <<>>
    /\ editIn = NoEdit
    /\ editLog = <<>>
    /\ received = <<>>
    /\ \E n \in 1..(1 + MaxSys + MaxOther) :
          \E sysAt \in SysPositions(n) :
              /\ n - 1 - Cardinality(sysAt) <= MaxOther
              /\ ConversationHistory = TrimInput(n, sysAt)

\* one call of trimConversationHistory
TrimStep ==
    /\ pc = "idle"
    /\ pc' = "trimmed"
    /\ turn' = [turn EXCEPT !.histBefore = ConversationHistory]
    /\ ConversationHistory' = trimConversationHistory(ConversationHistory)
    /\ UNCHANGED <<stream, fullResponse, toolCalls, finalNaturalResponse,
                   inputs, files, editIn, editLog, received, streams, scan, formatter>>

NextTrim == TrimStep

SpecTrim == InitTrim /\ [][NextTrim]_vars

\* C6: for a history with N non-system messages the post-trim non-system
\* count is min(N, 15) when N > 20 and N otherwise, and the post-trim system
\* messages are exactly the pre-trim system messages in their original order.
C6_TrimCounts ==
    pc = "trimmed" =>
        LET pre == turn.histBefore
            N == Len(SelectSeq(pre, NotSystem))
        IN /\ Len(SelectSeq(ConversationHistory, NotSystem))
                 = IF N > 20 THEN Min(N, 15) ELSE N
           /\ SelectSeq(ConversationHistory, IsSystem) = SelectSeq(pre, IsSystem)

C6_Witness ==
    /\ pc = "trimmed"
    /\ Len(SelectSeq(turn.histBefore, NotSystem)) > 20
    /\ Len(SelectSeq(turn.histBefore, IsSystem)) > 1
    /\ Len(SelectSeq(ConversationHistory, NotSystem)) = 15
    /\ ConversationHistory # turn.histBefore

\* C22: when the history has more than 20 non-system messages, the history
\* after trimConversationHistory is the system messages in their order
\* followed by exactly the last 15 non-system messages in their order; with
\* 20 or fewer the history is left as it was, interleaving included.
C22_TrimIsRecencyBased ==
    pc = "trimmed" =>
        LET pre == turn.histBefore
            others == SelectSeq(pre, NotSystem)
            N == Len(others)
            S == Len(SelectSeq(pre, IsSystem))
            post == ConversationHistory
        IN IF N > 20
           THEN /\ Len(post) = S + 15
                /\ \A i \in 1..S : IsSystem(post[i])
                /\ SelectSeq(post, IsSystem) = SelectSeq(pre, IsSystem)
                /\ \A j \in 1..15 : post[S + j] = others[N - 15 + j]
           ELSE post = pre

\* a history with more than 20 non-system messages and a system message
\* after a non-system one was trimmed
C22_Witness ==
    /\ pc = "trimmed"
    /\ Len(SelectSeq(turn.histBefore, NotSystem)) = 21
    /\ \E i, j \in 1..Len(turn.histBefore) :
          /\ i < j
          /\ NotSystem(turn.histBefore[i])
          /\ IsSystem(turn.histBefore[j])
    /\ Len(ConversationHistory) = Len(SelectSeq(turn.histBefore, IsSystem)) + 15
    /\ ConversationHistory[Len(ConversationHistory)]
          = turn.histBefore[Len(turn.histBefore)]

----------------------------------------------------------------------------
(* MatrixTextStreamFormatter: the line formatter of the streamed text *)

\* unicode.IsSpace on the bytes the replies are made of
IsSpace(c) == c \in {" ", "\t", "\n", "\r"}

Digits == {"0", "1", "2", "3", "4", "5", "6", "7", "8", "9"}

\* strings.TrimSpace
stringsTrimSpace(s) ==
    LET kept == {i \in 1..Len(s) : ~IsSpace(s[i])} IN
    IF kept = {} THEN <<>>
    ELSE SubSeq(s, CHOOSE i \in kept : \A j \in kept : i <= j,
                   CHOOSE i \in kept : \A j \in kept : i >= j)

\* strings.HasPrefix
stringsHasPrefix(s, prefix) == HasPrefixAt(s, prefix, 0)

\* strings.TrimPrefix
stringsTrimPrefix(s, prefix) ==
    IF stringsHasPrefix(s, prefix) THEN SubSeq(s, Len(prefix) + 1, Len(s))
    ELSE s

\* strings.Contains
stringsContains(s, substr) == \E i \in 0..Len(s) : HasPrefixAt(s, substr, i)

\* strings.ContainsAny
stringsContainsAny(s, chars) == \E i \in 1..Len(s) : s[i] \in chars

\* strings.TrimLeft
stringsTrimLeft(s, cutset) ==
    LET kept == {i \in 1..Len(s) : s[i] \notin cutset} IN
    IF kept = {} THEN <<>>
    ELSE SubSeq(s, CHOOSE i \in kept : \A j \in kept : i <= j, Len(s))

\* strings.Split(s, sep) for a one-byte separator
RECURSIVE stringsSplit(_, _)
stringsSplit(s, sep) ==
    IF \A i \in 1..Len(s) : s[i] # sep THEN <<s>>
    ELSE <<SubSeq(s, 1, stringsIndex(s, <<sep>>))>>
            \o stringsSplit(SubSeq(s, stringsIndex(s, <<sep>>) + 2, Len(s)), sep)

\* strings.Fields: the maximal runs of non-space bytes
RECURSIVE stringsFields(_)
stringsFields(s) ==
    IF \A i \in 1..Len(s) : IsSpace(s[i]) THEN <<>>
    ELSE IF IsSpace(s[1]) THEN stringsFields(Tail(s))
    ELSE IF \A i \in 1..Len(s) : ~IsSpace(s[i]) THEN <<s>>
    ELSE <<SubSeq(s, 1, (CHOOSE i \in 1..Len(s) :
                            /\ IsSpace(s[i])
                            /\ \A j \in 1..(i - 1) : ~IsSpace(s[j])) - 1)>>
            \o stringsFields(SubSeq(s, CHOOSE i \in 1..Len(s) :
                                          /\ IsSpace(s[i])
                                          /\ \A j \in 1..(i - 1) : ~IsSpace(s[j]),
                                    Len(s)))

\* strings.Join
RECURSIVE stringsJoin(_, _)
stringsJoin(elems, sep) ==
    IF elems = <<>> THEN <<>>
    ELSE IF Len(elems) = 1 THEN elems[1]
    ELSE elems[1] \o sep \o stringsJoin(Tail(elems), sep)

\* what one fmt.Println of formatAndPrintLine puts on the terminal
CodeHeader(codeLanguage) == [rule |-> "header", text |-> codeLanguage]
CodeFooter == [rule |-> "footer"]
CodeLine(line) == [rule |-> "code", text |-> line]
BulletItem(text) == [rule |-> "bullet", text |-> text]
NumberedItem(numPart, restOfLine) ==
    [rule |-> "numbered", number |-> numPart, text |-> restOfLine]
PlainText(text) == [rule |-> "plain", text |-> text]
BlankLine == [rule |-> "blank"]

\* the atom that stands for the byte 0x60, and the fence marker made of three
Backtick == "BACKTICK"
Fence == <<Backtick, Backtick, Backtick>>

\* the formatter NewMatrixTextStreamFormatter returns, with the lines it has
\* printed (out) and whether a call on it has panicked
NewMatrixTextStreamFormatter ==
    [buffer |-> <<>>, inCodeBlock |-> FALSE, codeLanguage |-> <<>>,
     out |-> <<>>, panicked |-> FALSE]

Println(f, printed) == [f EXCEPT !.out = Append(@, printed)]

\* the fence branch of formatAndPrintLine
formatFence(f, trimmedLine) ==
    IF ~f.inCodeBlock
    THEN LET language == stringsTrimSpace(stringsTrimPrefix(trimmedLine, Fence))
             codeLanguage == IF language = <<>> THEN <<"text">> ELSE language
         IN Println([f EXCEPT !.inCodeBlock = TRUE,
                              !.codeLanguage = codeLanguage],
                    CodeHeader(codeLanguage))
    ELSE Println([f EXCEPT !.inCodeBlock = FALSE], CodeFooter)

\* the numbered-item branch of formatAndPrintLine
formatNumbered(f, trimmedLine, parts) ==
    IF Len(parts) > 0
    THEN Println(f, NumberedItem(parts[1],
                       stringsTrimSpace(stringsJoin(Tail(parts), <<" ">>))))
    ELSE Println(f, PlainText(trimmedLine))

\* the condition of the numbered-item branch, evaluated when the line is
\* not a bullet item; trimmedLine[:2] needs two bytes
numberedCondition(trimmedLine) ==
    /\ Len(trimmedLine) > 0
    /\ stringsContainsAny(SubSeq(trimmedLine, 1, 2), Digits)
    /\ stringsHasPrefix(stringsTrimLeft(trimmedLine, Digits \cup {".", " "}), <<>>)
    /\ \/ stringsContains(trimmedLine, <<".", " ">>)
       \/ stringsContains(trimmedLine, <<")", " ">>)

\* trimmedLine[:2] is out of range: the runtime panics
sliceOutOfRange(trimmedLine) == Len(trimmedLine) > 0 /\ Len(trimmedLine) < 2

isBullet(trimmedLine) ==
    \/ stringsHasPrefix(trimmedLine, <<"*", " ">>)
    \/ stringsHasPrefix(trimmedLine, <<"-", " ">>)

\* the unfenced branch of formatAndPrintLine
formatUnfenced(f, trimmedLine) ==
    IF isBullet(trimmedLine)
    THEN Println(f, BulletItem(stringsTrimSpace(
                        SubSeq(trimmedLine, 3, Len(trimmedLine)))))
    ELSE IF sliceOutOfRange(trimmedLine) THEN [f EXCEPT !.panicked = TRUE]
    ELSE IF numberedCondition(trimmedLine)
    THEN formatNumbered(f, trimmedLine, stringsFields(trimmedLine))
    ELSE IF trimmedLine # <<>> THEN Println(f, PlainText(trimmedLine))
    ELSE Println(f, BlankLine)

formatTrimmed(f, line, trimmedLine) ==
    IF stringsHasPrefix(trimmedLine, Fence) THEN formatFence(f, trimmedLine)
    ELSE IF f.inCodeBlock THEN Println(f, CodeLine(line))
    ELSE formatUnfenced(f, trimmedLine)

formatAndPrintLine(f, line) == formatTrimmed(f, line, stringsTrimSpace(line))

\* the loop of ProcessChunk over lines[lo..hi]; a panic ends it
RECURSIVE formatLines(_, _, _, _)
formatLines(f, lines, lo, hi) ==
    IF lo > hi \/ f.panicked THEN f
    ELSE formatLines(formatAndPrintLine(f, lines[lo]), lines, lo + 1, hi)

\* the assignment to f.buffer that follows the calls of formatAndPrintLine
\* is not reached after a panic
setBuffer(f, buffer) == IF f.panicked THEN f ELSE [f EXCEPT !.buffer = buffer]

processLines(f, lines) ==
    setBuffer(formatLines(f, lines, 1, Len(lines) - 1), lines[Len(lines)])

ProcessChunk(f, chunk) ==
    processLines([f EXCEPT !.buffer = @ \o chunk],
                 stringsSplit(f.buffer \o chunk, "\n"))

finalizeFence(f) ==
    IF f.panicked THEN f
    ELSE IF f.inCodeBlock
    THEN Println([f EXCEPT !.inCodeBlock = FALSE], CodeFooter)
    ELSE f

\* Finalize without the closing footer of an open fence
FinalizeNoFooter(f) ==
    IF f.buffer # <<>>
    THEN setBuffer(formatAndPrintLine(f, f.buffer), <<>>)
    ELSE f

\* Finalize that keeps the partial line in the buffer
FinalizeKeepsBuffer(f) ==
    IF f.buffer # <<>>
    THEN finalizeFence(setBuffer(formatAndPrintLine(f, f.buffer), f.buffer))
    ELSE finalizeFence(f)

Finalize(f) ==
    IF f.buffer # <<>>
    THEN finalizeFence(setBuffer(formatAndPrintLine(f, f.buffer), <<>>))
    ELSE finalizeFence(f)

(* The formatter as StreamAIResponse drives it: the fragments of the first
   reply, Finalize, and after a tool round-trip the fragments of the
   follow-up reply on the same instance, and Finalize again. *)

MaxChunks == 4

\* the contents of the fragments a reply is made of
Chunks ==
    { <<"a">>, <<"1">>, <<" ">>, <<"\n">>, Fence,
      <<".", " ">>, <<")", " ">>, <<"*", " ">>, <<"g", "o", "\n", "\n">> }

InitFormat ==
    /\ SessionAtRest
    /\ files = InitialFiles
    /\ editIn = NoEdit
    /\ editLog = <<>>
    /\ received = <<>>
    /\ scan = NoScan
    /\ formatter = [phase |-> "first", f |-> NewMatrixTextStreamFormatter,
                    chunks |-> 0, first |-> <<>>, follow |-> <<>>, mark |-> 0]

FormatUnchanged ==
    UNCHANGED <<sessionVars, files, editIn, editLog, received, scan>>

\* a fragment of the first reply carries text
FormatRecv ==
    /\ formatter.phase = "first"
    /\ ~formatter.f.panicked
    /\ formatter.chunks < MaxChunks
    /\ \E chunk \in Chunks :
          formatter' = [formatter EXCEPT !.f = ProcessChunk(@, chunk),
                                         !.chunks = @ + 1,
                                         !.first = Append(@, chunk)]
    /\ FormatUnchanged

\* the first stream has ended: formatter.Finalize()
FormatFinalize ==
    /\ formatter.phase = "first"
    /\ ~formatter.f.panicked
    /\ \E f \in {Finalize(formatter.f)} :
          formatter' = [formatter EXCEPT !.f = f, !.phase = "finalized",
                                         !.mark = Len(f.out)]
    /\ FormatUnchanged

\* there were tool calls, and a fragment of the follow-up reply carries text
FollowUpRecv ==
    /\ formatter.phase \in {"finalized", "followup"}
    /\ ~formatter.f.panicked
    /\ formatter.chunks < MaxChunks
    /\ \E chunk \in Chunks :
          formatter' = [formatter EXCEPT !.f = ProcessChunk(@, chunk),
                                         !.phase = "followup",
                                         !.chunks = @ + 1,
                                         !.follow = Append(@, chunk)]
    /\ FormatUnchanged

\* the follow-up stream has ended: formatter.Finalize()
FollowUpFinalize ==
    /\ formatter.phase \in {"finalized", "followup"}
    /\ ~formatter.f.panicked
    /\ formatter' = [formatter EXCEPT !.f = Finalize(@), !.phase = "returned"]
    /\ FormatUnchanged

NextFormat == FormatRecv \/ FormatFinalize \/ FollowUpRecv \/ FollowUpFinalize

SpecFormat == InitFormat /\ [][NextFormat]_vars

\* the text of a sequence of fragments
RECURSIVE Concat(_)
Concat(chunks) ==
    IF chunks = <<>> THEN <<>> ELSE Head(chunks) \o Concat(Tail(chunks))

\* the lines of a text: its pieces between newlines, without the empty piece
\* after a final newline
LinesOf(text) ==
    LET pieces == stringsSplit(text, "\n") IN
    IF pieces[Len(pieces)] = <<>> THEN SubSeq(pieces, 1, Len(pieces) - 1)
    ELSE pieces

FirstLines == LinesOf(Concat(formatter.first))

Finalized == formatter.phase = "finalized" /\ ~formatter.f.panicked

\* the rendering rules that apply to unfenced lines
UnfencedRules == {"bullet", "numbered", "plain", "blank"}

\* C24: the formatter is total: no call of ProcessChunk or Finalize fails,
\* each line of the text is handled by exactly one rendering rule, an empty
\* unfenced line is rendered as a blank line and a non-empty unfenced line of
\* any length that is no fence marker, bullet item or numbered item is
\* rendered as plain text.
C24_FormatterIsTotal ==
    formatter.phase # "none" =>
        /\ ~formatter.f.panicked
        /\ formatter.phase = "finalized" =>
              /\ Len(formatter.f.out) - Len(FirstLines) \in {0, 1}
              /\ \A k \in 1..Len(FirstLines) :
                    LET printed == formatter.f.out[k]
                        trimmedLine == stringsTrimSpace(FirstLines[k])
                    IN printed.rule \in UnfencedRules =>
                          /\ trimmedLine = <<>> => printed = BlankLine
                          /\ (/\ trimmedLine # <<>>
                              /\ printed.rule \notin {"bullet", "numbered"})
                                => printed = PlainText(trimmedLine)

\* the trimmed line begins with a run of n digits followed by ". " or ") "
NumberRun(trimmedLine, n) ==
    /\ n >= 1
    /\ \A i \in 1..n : trimmedLine[i] \in Digits
    /\ \/ HasPrefixAt(trimmedLine, <<".", " ">>, n)
       \/ HasPrefixAt(trimmedLine, <<")", " ">>, n)

BeginsWithNumber(trimmedLine) ==
    \E n \in 1..Len(trimmedLine) : NumberRun(trimmedLine, n)

\* C25: an unfenced line that is not a bullet item is rendered as a numbered
\* item if and only if its trimmed content begins with a run of digits
\* immediately followed by ". " or ") "; the number token and the remainder
\* are rendered separately; every other non-empty line is plain text.
C25_NumberedItemRule ==
    Finalized =>
        \A k \in 1..Len(FirstLines) :
            LET printed == formatter.f.out[k]
                trimmedLine == stringsTrimSpace(FirstLines[k])
            IN (printed.rule \in UnfencedRules /\ ~isBullet(trimmedLine)) =>
                  /\ printed.rule = "numbered" <=> BeginsWithNumber(trimmedLine)
                  /\ printed.rule = "numbered" =>
                        \A n \in 1..Len(trimmedLine) :
                            NumberRun(trimmedLine, n) =>
                                /\ printed.number = SubSeq(trimmedLine, 1, n + 1)
                                /\ stringsFields(printed.text)
                                      = stringsFields(SubSeq(trimmedLine, n + 2,
                                                             Len(trimmedLine)))
                  /\ (printed.rule # "numbered" /\ trimmedLine # <<>>)
                        => printed = PlainText(trimmedLine)

\* the code-block headers and footers among printed lines, in order
IsFenceLine(printed) == printed.rule \in {"header", "footer"}
FenceLines(out) == SelectSeq(out, IsFenceLine)
IsHeader(printed) == printed.rule = "header"
IsFooter(printed) == printed.rule = "footer"

\* headers and footers alternate, starting with a header
Alternating(fenceLines) ==
    \A i \in 1..Len(fenceLines) :
        fenceLines[i].rule = IF i % 2 = 1 THEN "header" ELSE "footer"

\* the lines of the first reply, the unterminated last one included, handled
\* one after the other by a new formatter
FirstHandled ==
    formatLines(NewMatrixTextStreamFormatter, FirstLines, 1, Len(FirstLines))

\* a call of Finalize has returned
AfterFinalize ==
    formatter.phase \in {"finalized", "returned"} /\ ~formatter.f.panicked

\* C26: headers and footers are printed strictly alternating, starting with
\* a header; Finalize handles the buffered partial line as a last line and
\* then prints a footer if and only if the formatter is still inside a
\* fence; when Finalize has returned there are as many headers as footers,
\* the buffer is empty and the fence flag is false.
C26_FenceDiscipline ==
    formatter.phase # "none" =>
        /\ Alternating(FenceLines(formatter.f.out))
        /\ Finalized =>
              /\ formatter.f.out
                    = FirstHandled.out
                         \o IF FirstHandled.inCodeBlock THEN <<CodeFooter>>
                            ELSE <<>>
        /\ AfterFinalize =>
              /\ Len(SelectSeq(formatter.f.out, IsHeader))
                    = Len(SelectSeq(formatter.f.out, IsFooter))
              /\ formatter.f.buffer = <<>>
              /\ formatter.f.inCodeBlock = FALSE

\* Finalize has closed a fence that the text left open, after handling an
\* unterminated last line inside it
C26_Witness ==
    /\ Finalized
    /\ FirstHandled.inCodeBlock
    /\ Len(Concat(formatter.first)) > 0
    /\ Concat(formatter.first)[Len(Concat(formatter.first))] # "\n"
    /\ Len(formatter.f.out) >= 3
    /\ formatter.f.out[Len(formatter.f.out)] = CodeFooter
    /\ formatter.f.out[Len(formatter.f.out) - 1].rule = "code"

\* a formatter after the fragments of a reply
RECURSIVE Fed(_, _)
Fed(f, chunks) ==
    IF chunks = <<>> \/ f.panicked THEN f
    ELSE Fed(ProcessChunk(f, Head(chunks)), Tail(chunks))

\* a new formatter given the follow-up received so far, and finalized when
\* the follow-up stream has ended
FreshFollowUp ==
    IF formatter.phase = "returned"
    THEN Finalize(Fed(NewMatrixTextStreamFormatter, formatter.follow))
    ELSE Fed(NewMatrixTextStreamFormatter, formatter.follow)

SameAsFresh(f, fresh, mark) ==
    /\ SubSeq(f.out, mark + 1, Len(f.out)) = fresh.out
    /\ f.buffer = fresh.buffer
    /\ f.inCodeBlock = fresh.inCodeBlock
    /\ f.panicked = fresh.panicked

\* C29: the follow-up reply is rendered as by a new formatter: when the
\* follow-up begins the buffer is empty and the formatter is outside a fence,
\* whatever the first reply was, and the lines printed for the follow-up are
\* those a new instance prints for the follow-up text alone.
C29_FollowUpAsFresh ==
    /\ Finalized =>
          /\ formatter.f.buffer = NewMatrixTextStreamFormatter.buffer
          /\ formatter.f.inCodeBlock = NewMatrixTextStreamFormatter.inCodeBlock
    /\ formatter.phase \in {"followup", "returned"} =>
          SameAsFresh(formatter.f, FreshFollowUp, formatter.mark)

\* the first reply ended inside a fence on an unterminated line, and a
\* follow-up line was printed as plain text
C29_Witness ==
    /\ formatter.phase = "followup"
    /\ FirstHandled.inCodeBlock
    /\ Concat(formatter.first)[Len(Concat(formatter.first))] # "\n"
    /\ Len(formatter.f.out) > formatter.mark
    /\ formatter.f.out[formatter.mark + 1].rule = "plain"

====
